---- MODULE Spec2Model ----
(***************************************************************************)
(* A model of linea's command template builder (internal/executor.go,      *)
(* internal/utils.go) and of the lineash script interpreter                *)
(* (internal/lineash.go).  Texts are TLA+ strings; an index follows Go's   *)
(* zero-based convention, so Slice(s, a, b) is s[a:b] and At(s, i) is s[i].*)
(* Go ranges over a map in an unspecified order: every such loop takes its *)
(* order as an argument and the actions choose it nondeterministically.    *)
(***************************************************************************)
EXTENDS Integers, Sequences, FiniteSets, TLC

VARIABLES
    goos,        \* runtime.GOOS of the build
    config,      \* the workflow record handed to BuildCommand
    overrideVars,\* the -s/--set map handed to BuildCommand
    built,       \* outcome of BuildCommand
    subst,       \* the substitution harness: text, scope and its two passes
    lines,       \* the script, split into lines
    argv,        \* what follows the script path on the lineash command line
    ctx,         \* LineashContext: Variables and Args
    workflows,   \* names GetAvailableWorkflows returns
    pc,          \* where the interpreter is
    ip,          \* instruction pointer i of ExecuteLines
    blk,         \* the block handler's locals
    trace,       \* the commands dispatched so far, in order
    failures,    \* how many dispatched commands the host may still fail
    cli,         \* ParseArgs: its arguments and what it returns
    yaml,        \* ParseMultiYAML: the document stream and what it returns
    multi        \* ExecuteMultipleCommands: its arguments, its loop and its result

vars == <<goos, config, overrideVars, built, subst, lines, argv, ctx, workflows,
          pc, ip, blk, trace, failures, cli, yaml, multi>>

runVars == <<cli, yaml, multi>>
buildVars == <<config, overrideVars, built>>
scriptVars == <<lines, argv, ctx, workflows, pc, ip, blk, trace, failures>>

-----------------------------------------------------------------------------
(* Bounds *)

\* most arguments of a workflow record
MaxArgs == 1
\* most variables a workflow record declares
MaxDeclared == 2
\* most -s/--set pairs of a build
MaxOverride == 1
\* most replacements one `$name` loop makes before the model calls it stuck
MaxRescan == 6

-----------------------------------------------------------------------------
(* Go's strings package *)

Slice(s, a, b) == SubSeq(s, a + 1, b)
At(s, i) == SubSeq(s, i + 1, i + 1)
From(s, a) == SubSeq(s, a + 1, Len(s))

HasPrefix(s, p) == Len(p) <= Len(s) /\ Slice(s, 0, Len(p)) = p
HasSuffix(s, p) == Len(p) <= Len(s) /\ From(s, Len(s) - Len(p)) = p

RECURSIVE IndexFrom(_, _, _)
IndexFrom(s, sub, i) ==
    IF i + Len(sub) > Len(s) THEN -1
    ELSE IF Slice(s, i, i + Len(sub)) = sub THEN i
    ELSE IndexFrom(s, sub, i + 1)

Index(s, sub) == IndexFrom(s, sub, 0)
Contains(s, sub) == Index(s, sub) >= 0

RECURSIVE Count(_, _)
Count(s, sub) ==
    LET idx == Index(s, sub)
    IN  IF idx = -1 THEN 0 ELSE 1 + Count(From(s, idx + Len(sub)), sub)

\* strings.ReplaceAll for a non-empty old: left to right, no overlap, and
\* the inserted text is not scanned again by the same call
RECURSIVE ReplaceAll(_, _, _)
ReplaceAll(s, old, new) ==
    LET idx == Index(s, old)
    IN  IF idx = -1 THEN s
        ELSE Slice(s, 0, idx) \o new \o ReplaceAll(From(s, idx + Len(old)), old, new)

\* strings.Replace(s, old, new, 1)
ReplaceFirst(s, old, new) ==
    LET idx == Index(s, old)
    IN  IF idx = -1 THEN s
        ELSE Slice(s, 0, idx) \o new \o From(s, idx + Len(old))

Lower == {"a","b","c","d","e","f","g","h","i","j","k","l","m",
          "n","o","p","q","r","s","t","u","v","w","x","y","z"}
Upper == {"A","B","C","D","E","F","G","H","I","J","K","L","M",
          "N","O","P","Q","R","S","T","U","V","W","X","Y","Z"}
Digit == {"0","1","2","3","4","5","6","7","8","9"}

IsLetter(c) == c \in Lower \/ c \in Upper
IsNameStart(c) == IsLetter(c) \/ c = "_"
IsNameChar(c) == IsLetter(c) \/ c \in Digit \/ c = "_"

Range(f) == {f[k] : k \in DOMAIN f}
Orders(S) == {o \in [1..Cardinality(S) -> S] : \A i, j \in DOMAIN o : i # j => o[i] # o[j]}

-----------------------------------------------------------------------------
(* internal/utils.go *)

RECURSIVE BraceRefs(_, _, _, _)
BraceRefs(s, i, start, refs) ==
    IF i >= Len(s) THEN refs
    ELSE IF At(s, i) = "{" THEN BraceRefs(s, i + 1, i, refs)
    ELSE IF At(s, i) = "}" /\ start # -1 THEN
        LET varName == Slice(s, start + 1, i)
        IN  BraceRefs(s, i + 1, -1, IF varName # "" THEN refs \cup {varName} ELSE refs)
    ELSE BraceRefs(s, i + 1, start, refs)

RECURSIVE NameEnd(_, _)
NameEnd(s, j) == IF j < Len(s) /\ IsNameChar(At(s, j)) THEN NameEnd(s, j + 1) ELSE j

RECURSIVE DollarRefs(_, _, _)
DollarRefs(s, i, refs) ==
    IF i >= Len(s) THEN refs
    ELSE IF At(s, i) = "$" /\ i + 1 < Len(s) /\ IsNameStart(At(s, i + 1)) THEN
        LET j == NameEnd(s, i + 1)
        IN  DollarRefs(s, j, refs \cup {Slice(s, i + 1, j)})
    ELSE DollarRefs(s, i + 1, refs)

ExtractVariableReferences(s) == BraceRefs(s, 0, -1, {}) \cup DollarRefs(s, 0, {})

\* the names ValidateVariables reports missing; its error is returned exactly
\* when this set is not empty.  strs is the collection of strings to validate.
ValidateVariables(strs, variables) ==
    LET allRefs == UNION {ExtractVariableReferences(arg) : arg \in strs}
    IN  {ref \in allRefs : ref \notin DOMAIN variables}

Returned(s) == [hang |-> FALSE, s |-> s]
Stuck(s) == [hang |-> TRUE, s |-> s]

\* the `for { idx := strings.Index(result, "$"+key) ... }` loop shared by
\* both substitutions: an occurrence followed by a name character is
\* rewritten to itself, so the loop never leaves it
RECURSIVE DollarLoop(_, _, _, _)
DollarLoop(result, key, value, fuel) ==
    LET placeholder1 == "$" \o key
        idx == Index(result, placeholder1)
        afterIdx == idx + Len(placeholder1)
    IN  IF idx = -1 THEN Returned(result)
        ELSE IF afterIdx < Len(result) /\ IsNameChar(At(result, afterIdx)) THEN Stuck(result)
        ELSE IF Contains(value, placeholder1) \/ fuel = 0 THEN Stuck(result)
        ELSE DollarLoop(Slice(result, 0, idx) \o value \o From(result, afterIdx),
                        key, value, fuel - 1)

\* the same loop with the braces left out of the placeholder
RECURSIVE BracePassBare(_, _, _, _)
BracePassBare(result, yamlVars, order, k) ==
    IF k > Len(order) THEN result
    ELSE BracePassBare(ReplaceAll(result, order[k], yamlVars[order[k]]),
                       yamlVars, order, k + 1)

\* the first loop of SubstituteVariablesWithSeparateMaps, keys taken in order
RECURSIVE BracePass(_, _, _, _)
BracePass(result, yamlVars, order, k) ==
    IF k > Len(order) THEN result
    ELSE BracePass(ReplaceAll(result, "{" \o order[k] \o "}", yamlVars[order[k]]),
                   yamlVars, order, k + 1)

\* the loop over the sigil variables, keys taken in order
RECURSIVE DollarPass(_, _, _, _)
DollarPass(result, dollarVars, order, k) ==
    IF k > Len(order) THEN Returned(result)
    ELSE LET key == order[k]
             value == dollarVars[key]
             r == DollarLoop(ReplaceAll(result, "${" \o key \o "}", value), key, value, MaxRescan)
         IN  IF r.hang THEN r ELSE DollarPass(r.s, dollarVars, order, k + 1)

SubstituteVariablesWithSeparateMapsIn(s, yamlVars, yOrder, dollarVars, dOrder) ==
    DollarPass(BracePass(s, yamlVars, yOrder, 1), dollarVars, dOrder, 1)

\* every outcome of SubstituteVariablesWithSeparateMaps over the map orders
SubstituteVariablesWithSeparateMaps(s, yamlVars, dollarVars) ==
    {SubstituteVariablesWithSeparateMapsIn(s, yamlVars, yo, dollarVars, do) :
        yo \in Orders(DOMAIN yamlVars), do \in Orders(DOMAIN dollarVars)}

\* a classification that takes every argument for a path
IsPathLikeAlways(s) == TRUE

IsPathLike(s) ==
    IF Len(s) <= 3 /\ (HasPrefix(s, "/") \/ HasPrefix(s, "\\")) THEN FALSE
    ELSE IF Len(s) >= 2 /\ At(s, 1) = ":" /\ IsLetter(At(s, 0)) THEN TRUE
    ELSE IF HasPrefix(s, "./") \/ HasPrefix(s, "../") THEN TRUE
    ELSE IF HasPrefix(s, "/") /\ Len(s) > 3
            /\ (Count(s, "/") > 1 \/ Contains(s, ".") \/ Len(s) > 4) THEN TRUE
    ELSE IF Contains(s, "\\") THEN TRUE
    ELSE IF Contains(s, "/") /\ Contains(s, "\\") THEN TRUE
    ELSE Count(s, "/") + Count(s, "\\") > 1

\* filepath.Clean's `out.w--; for out.w > dotdot && !sep(out.index(out.w))`
RECURSIVE Backtrack(_, _, _)
Backtrack(out, dotdot, sep) ==
    LET w == Len(out) - 1
    IN  IF w > dotdot /\ At(out, w) # sep THEN Backtrack(Slice(out, 0, w), dotdot, sep)
        ELSE Slice(out, 0, w)

RECURSIVE ElementEnd(_, _, _)
ElementEnd(path, sep, r) ==
    IF r < Len(path) /\ At(path, r) # sep THEN ElementEnd(path, sep, r + 1) ELSE r

\* the main loop of filepath.Clean over the part of the path after the volume
RECURSIVE CleanLoop(_, _, _, _, _, _)
CleanLoop(path, sep, rooted, r, out, dotdot) ==
    LET n == Len(path)
    IN  IF r >= n THEN out
        ELSE IF At(path, r) = sep THEN CleanLoop(path, sep, rooted, r + 1, out, dotdot)
        ELSE IF At(path, r) = "." /\ (r + 1 = n \/ At(path, r + 1) = sep) THEN
            CleanLoop(path, sep, rooted, r + 1, out, dotdot)
        ELSE IF At(path, r) = "." /\ At(path, r + 1) = "."
                /\ (r + 2 = n \/ At(path, r + 2) = sep) THEN
            IF Len(out) > dotdot THEN
                CleanLoop(path, sep, rooted, r + 2, Backtrack(out, dotdot, sep), dotdot)
            ELSE IF ~rooted THEN
                LET o2 == (IF Len(out) > 0 THEN out \o sep ELSE out) \o ".."
                IN  CleanLoop(path, sep, rooted, r + 2, o2, Len(o2))
            ELSE CleanLoop(path, sep, rooted, r + 2, out, dotdot)
        ELSE
            LET o1 == IF (rooted /\ Len(out) # 1) \/ (~rooted /\ Len(out) # 0)
                      THEN out \o sep ELSE out
                e == ElementEnd(path, sep, r)
            IN  CleanLoop(path, sep, rooted, e, o1 \o Slice(path, r, e), dotdot)

\* filepath.Clean of the Go standard library, for a path whose separators
\* are already the host's; on Windows a drive letter is the volume name
\* (UNC volumes are not modelled)
Clean(path, os) ==
    LET sep == IF os = "windows" THEN "\\" ELSE "/"
        volLen == IF os = "windows" /\ Len(path) >= 2 /\ At(path, 1) = ":"
                     /\ IsLetter(At(path, 0)) THEN 2 ELSE 0
        rest == From(path, volLen)
        rooted == rest # "" /\ At(rest, 0) = sep
        out == CleanLoop(rest, sep, rooted, IF rooted THEN 1 ELSE 0,
                         IF rooted THEN sep ELSE "", IF rooted THEN 1 ELSE 0)
    IN  IF path = "" THEN "."
        ELSE IF rest = "" THEN path \o "."
        ELSE Slice(path, 0, volLen) \o (IF out = "" THEN "." ELSE out)

NormalizePath(path, os) ==
    Clean(IF os = "windows" THEN ReplaceAll(path, "/", "\\")
          ELSE ReplaceAll(path, "\\", "/"), os)

\* one element of SubstituteVariablesInArgsWithSeparateMaps: every outcome
\* of substituting, then normalising, one argument
SubstituteArg(arg, yamlVars, dollarVars, os) ==
    {IF r.hang THEN r
     ELSE Returned(IF IsPathLike(r.s) THEN NormalizePath(r.s, os) ELSE r.s) :
        r \in SubstituteVariablesWithSeparateMaps(arg, yamlVars, dollarVars)}

\* every outcome of the loop over the arguments, as a sequence of outcomes
RECURSIVE SubstituteVariablesInArgsWithSeparateMaps(_, _, _, _)
SubstituteVariablesInArgsWithSeparateMaps(args, yamlVars, dollarVars, os) ==
    IF args = <<>> THEN {<<>>}
    ELSE {<<h>> \o t : h \in SubstituteArg(Head(args), yamlVars, dollarVars, os),
                       t \in SubstituteVariablesInArgsWithSeparateMaps(
                                Tail(args), yamlVars, dollarVars, os)}

-----------------------------------------------------------------------------
(* internal/executor.go: BuildCommand *)

\* `{name}` is resolved in the declared variables only, whatever ov binds
YamlVars(cfg) == cfg.Variables

\* `$name` is resolved in the declared variables overlaid by the overrides
DollarVars(cfg, ov) == ov @@ cfg.Variables

\* the map the references are validated against
AllVars(cfg, ov) == DollarVars(cfg, ov) @@ YamlVars(cfg)

StringsToValidate(cfg, ov) ==
    {cfg.Args[i] : i \in DOMAIN cfg.Args} \cup Range(AllVars(cfg, ov))

Missing(cfg, ov) == ValidateVariables(StringsToValidate(cfg, ov), AllVars(cfg, ov))

NotBuilt == [status |-> "none", cmd |-> <<>>, missing |-> {}]

\* a command that always carries the subcommand field
CmdHeadAlways(cfg) == <<cfg.Command, cfg.Subcommand>>

CmdHead(cfg) ==
    IF cfg.Subcommand # "" THEN <<cfg.Command, cfg.Subcommand>> ELSE <<cfg.Command>>

\* BuildCommand returns (nil, err): the validation found undefined variables
BuildCommandFails ==
    /\ built.status = "none"
    /\ Missing(config, overrideVars) # {}
    /\ built' = [status |-> "err", cmd |-> <<>>, missing |-> Missing(config, overrideVars)]
    /\ UNCHANGED <<goos, runVars, config, overrideVars, subst, scriptVars>>

\* BuildCommand returns (cmd, nil)
BuildCommandReturns ==
    /\ built.status = "none"
    /\ Missing(config, overrideVars) = {}
    /\ \E args \in SubstituteVariablesInArgsWithSeparateMaps(
                      config.Args, YamlVars(config), DollarVars(config, overrideVars), goos) :
          /\ \A i \in DOMAIN args : ~args[i].hang
          /\ built' = [status |-> "ok",
                       cmd |-> CmdHead(config) \o [i \in DOMAIN args |-> args[i].s],
                       missing |-> {}]
    /\ UNCHANGED <<goos, runVars, config, overrideVars, subst, scriptVars>>

\* BuildCommand never returns: a `$name` loop of the substitution spins
BuildCommandSpins ==
    /\ built.status = "none"
    /\ Missing(config, overrideVars) = {}
    /\ \E args \in SubstituteVariablesInArgsWithSeparateMaps(
                      config.Args, YamlVars(config), DollarVars(config, overrideVars), goos) :
          \E i \in DOMAIN args : args[i].hang
    /\ built' = [status |-> "hang", cmd |-> <<>>, missing |-> {}]
    /\ UNCHANGED <<goos, runVars, config, overrideVars, subst, scriptVars>>

-----------------------------------------------------------------------------
(* internal/lineash.go: text helpers *)

Space == {" ", "\t", "\r"}

RECURSIVE TrimLeft(_, _)
TrimLeft(s, cutset) ==
    IF s # "" /\ At(s, 0) \in cutset THEN TrimLeft(From(s, 1), cutset) ELSE s

RECURSIVE TrimRight(_, _)
TrimRight(s, cutset) ==
    IF s # "" /\ At(s, Len(s) - 1) \in cutset THEN TrimRight(Slice(s, 0, Len(s) - 1), cutset)
    ELSE s

\* strings.Trim(s, cutset), the cutset given as a set of characters
Trim(s, cutset) == TrimRight(TrimLeft(s, cutset), cutset)
TrimSpace(s) == Trim(s, Space)
TrimPrefix(s, p) == IF HasPrefix(s, p) THEN From(s, Len(p)) ELSE s

Quotes == {"\"", "'"}

\* strings.Fields
RECURSIVE Fields(_, _, _)
Fields(s, i, current) ==
    IF i >= Len(s) THEN (IF current # "" THEN <<current>> ELSE <<>>)
    ELSE IF At(s, i) \in Space \cup {"\n"} THEN
        (IF current # "" THEN <<current>> ELSE <<>>) \o Fields(s, i + 1, "")
    ELSE Fields(s, i + 1, current \o At(s, i))

\* the byte order of Go's string comparison, over printable ASCII (the
\* grave accent left out)
Ascii == " !\"#$%&'()*+,-./0123456789:;<=>?@ABCDEFGHIJKLMNOPQRSTUVWXYZ[\\]^_abcdefghijklmnopqrstuvwxyz{|}~"

RECURSIVE StringLess(_, _)
StringLess(l, r) ==
    IF r = "" THEN FALSE
    ELSE IF l = "" THEN TRUE
    ELSE IF At(l, 0) = At(r, 0) THEN StringLess(From(l, 1), From(r, 1))
    ELSE Index(Ascii, At(l, 0)) < Index(Ascii, At(r, 0))

\* decimal digits without their leading zeros
RECURSIVE StripZeros(_)
StripZeros(s) == IF Len(s) > 1 /\ At(s, 0) = "0" THEN StripZeros(From(s, 1)) ELSE s

\* strconv.Atoi gives an error for digits beyond the largest 64-bit integer
InInt64(digits) ==
    LET d == StripZeros(digits)
    IN  Len(d) < 19 \/ (Len(d) = 19 /\ ~StringLess("9223372036854775807", d))

\* strconv.Atoi succeeds: an optional sign and decimal digits, nothing else,
\* within 64 bits
IsInt(s) ==
    LET body == IF s # "" /\ At(s, 0) \in {"+", "-"} THEN From(s, 1) ELSE s
    IN  /\ body # "" /\ \A i \in 0..(Len(body) - 1) : At(body, i) \in Digit
        /\ InInt64(body) \/ (At(s, 0) = "-" /\ StripZeros(body) = "9223372036854775808")

DigitValue(c) == Index("0123456789", c)

RECURSIVE DigitsValue(_, _)
DigitsValue(s, acc) ==
    IF s = "" THEN acc ELSE DigitsValue(From(s, 1), acc * 10 + DigitValue(At(s, 0)))

Atoi(s) ==
    IF At(s, 0) = "-" THEN 0 - DigitsValue(From(s, 1), 0)
    ELSE IF At(s, 0) = "+" THEN DigitsValue(From(s, 1), 0)
    ELSE DigitsValue(s, 0)

RECURSIVE NatToString(_)
NatToString(n) ==
    IF n < 10 THEN At("0123456789", n)
    ELSE NatToString(n \div 10) \o At("0123456789", n % 10)

\* strconv.Itoa
Itoa(n) == IF n < 0 THEN "-" \o NatToString(0 - n) ELSE NatToString(n)

\* Go's integer division and remainder truncate toward zero
Abs(n) == IF n < 0 THEN 0 - n ELSE n
GoQuo(a, b) == IF (a < 0) = (b < 0) THEN Abs(a) \div Abs(b) ELSE 0 - (Abs(a) \div Abs(b))
GoRem(a, b) == a - b * GoQuo(a, b)

-----------------------------------------------------------------------------
(* internal/lineash.go: substitution *)

\* the variables in the order the sort by key length leaves them in: the
\* longest key first, keys of one length in the order the map gave them
SortedOrders(variables) ==
    {o \in Orders(DOMAIN variables) :
        \A i, j \in DOMAIN o : i < j => Len(o[i]) >= Len(o[j])}

\* the matches of regexp `\$(\d+)`, left to right
RECURSIVE DigitsEnd(_, _)
DigitsEnd(s, j) == IF j < Len(s) /\ At(s, j) \in Digit THEN DigitsEnd(s, j + 1) ELSE j

RECURSIVE PositionalMatches(_, _)
PositionalMatches(s, i) ==
    IF i >= Len(s) THEN <<>>
    ELSE IF At(s, i) = "$" /\ DigitsEnd(s, i + 1) > i + 1 THEN
        <<Slice(s, i, DigitsEnd(s, i + 1))>> \o PositionalMatches(s, DigitsEnd(s, i + 1))
    ELSE PositionalMatches(s, i + 1)

\* a number of ten digits or more is beyond the length of any args
RECURSIVE ReplacePositional(_, _, _, _)
ReplacePositional(result, matches, k, args) ==
    IF k > Len(matches) THEN result
    ELSE LET digits == StripZeros(From(matches[k], 1))
             small == Len(digits) <= 9
             replacement == IF small /\ Atoi(digits) > 0 /\ Atoi(digits) <= Len(args)
                            THEN args[Atoi(digits)] ELSE ""
         IN  IF ~InInt64(digits) THEN ReplacePositional(result, matches, k + 1, args)
             ELSE ReplacePositional(ReplaceFirst(result, matches[k], replacement),
                                    matches, k + 1, args)

substitutePositionalParams(line, c) ==
    ReplacePositional(line, PositionalMatches(line, 0), 1, c.Args)

\* evaluateArithmetic: the split of the expression at the operator characters
RECURSIVE ArithParts(_, _, _)
ArithParts(expr, i, current) ==
    IF i >= Len(expr) THEN (IF current # "" THEN <<TrimSpace(current)>> ELSE <<>>)
    ELSE IF At(expr, i) \in {"+", "-", "*", "/", "%"} THEN
        (IF current # "" THEN <<TrimSpace(current)>> ELSE <<>>)
            \o <<At(expr, i)>> \o ArithParts(expr, i + 1, "")
    ELSE ArithParts(expr, i + 1, current \o At(expr, i))

\* an evaluator for which a division by zero gives zero
ApplyOpZeroing(result, op, val) ==
    CASE op = "+" -> result + val
      [] op = "-" -> result - val
      [] op = "*" -> result * val
      [] op = "/" -> IF val # 0 THEN GoQuo(result, val) ELSE 0
      [] op = "%" -> IF val # 0 THEN GoRem(result, val) ELSE 0
      [] OTHER -> result

ApplyOp(result, op, val) ==
    CASE op = "+" -> result + val
      [] op = "-" -> result - val
      [] op = "*" -> result * val
      [] op = "/" -> IF val # 0 THEN GoQuo(result, val) ELSE result
      [] op = "%" -> IF val # 0 THEN GoRem(result, val) ELSE result
      [] OTHER -> result

RECURSIVE ArithFold(_, _, _)
ArithFold(parts, i, result) ==
    IF i > Len(parts) \/ i + 1 > Len(parts) THEN result
    ELSE IF ~IsInt(parts[i + 1]) THEN ArithFold(parts, i + 2, result)
    ELSE ArithFold(parts, i + 2, ApplyOp(result, parts[i], Atoi(parts[i + 1])))

\* the operands that parse and the running results stay within nine digits
\* in the expressions that are checked
evaluateArithmetic(expr0) ==
    LET expr == TrimSpace(expr0)
        parts == ArithParts(expr, 0, "")
    IN  IF IsInt(expr) THEN Itoa(Atoi(expr))
        ELSE IF Len(parts) = 0 THEN "0"
        ELSE IF ~IsInt(parts[1]) THEN "0"
        ELSE Itoa(ArithFold(parts, 2, Atoi(parts[1])))

\* Regexp.expand for a pattern without capture groups: `$0` is the match,
\* any other `$name`, `${name}` is empty, `$$` is a dollar sign
RECURSIVE Expand(_, _)
Expand(template, match) ==
    LET i == Index(template, "$")
        before == Slice(template, 0, i)
        after == From(template, i + 1)
        brace == after # "" /\ At(after, 0) = "{"
        body == IF brace THEN From(after, 1) ELSE after
        e == NameEnd(body, 0)
        ok == e > 0 /\ (brace => (e < Len(body) /\ At(body, e) = "}"))
    IN  IF i = -1 THEN template
        ELSE IF after # "" /\ At(after, 0) = "$" THEN before \o "$" \o Expand(From(after, 1), match)
        ELSE IF ~ok THEN before \o "$" \o Expand(after, match)
        ELSE before \o (IF Slice(body, 0, e) = "0" THEN match ELSE "")
                    \o Expand(From(body, IF brace THEN e + 1 ELSE e), match)

\* `\b`: a word character on exactly one side of position p
IsWordAt(s, p) == p >= 0 /\ p < Len(s) /\ IsNameChar(At(s, p))
WordBoundary(s, p) == IsWordAt(s, p - 1) # IsWordAt(s, p)

\* regexp.MustCompile(`\b`+QuoteMeta(key)+`\b`).ReplaceAllString(expr, value)
RECURSIVE ReplaceWord(_, _, _, _)
ReplaceWord(expr, key, value, i) ==
    IF i >= Len(expr) THEN ""
    ELSE IF i + Len(key) <= Len(expr) /\ Slice(expr, i, i + Len(key)) = key
            /\ WordBoundary(expr, i) /\ WordBoundary(expr, i + Len(key)) THEN
        Expand(value, key) \o ReplaceWord(expr, key, value, i + Len(key))
    ELSE At(expr, i) \o ReplaceWord(expr, key, value, i + 1)

\* an expression in which bare names are left as they are
ReplaceWordsNone(expr, variables, order, k) == expr

RECURSIVE ReplaceWords(_, _, _, _)
ReplaceWords(expr, variables, order, k) ==
    IF k > Len(order) THEN expr
    ELSE ReplaceWords(ReplaceWord(expr, order[k], variables[order[k]], 0), variables, order, k + 1)

RECURSIVE ReplaceSigils(_, _, _, _)
ReplaceSigils(expr, variables, order, k) ==
    IF k > Len(order) THEN expr
    ELSE LET key == order[k]
             value == variables[key]
         IN  ReplaceSigils(ReplaceAll(ReplaceAll(expr, "$" \o key, value),
                                      "${" \o key \o "}", value),
                           variables, order, k + 1)

\* the value substituteArithmetic computes for the inner text of one match
ArithmeticValue(inner, c, order) ==
    evaluateArithmetic(
        ReplaceSigils(
            ReplaceWords(substitutePositionalParams(TrimSpace(inner), c),
                         c.Variables, order, 1),
            c.Variables, order, 1))

\* the matches of regexp `\$\(\(([^)]+)\)\)`, left to right, as
\* <<whole match, inner text>>
RECURSIVE NotParenEnd(_, _)
NotParenEnd(s, j) == IF j < Len(s) /\ At(s, j) # ")" THEN NotParenEnd(s, j + 1) ELSE j

RECURSIVE ArithmeticMatches(_, _)
ArithmeticMatches(s, i) ==
    IF i + 3 > Len(s) THEN <<>>
    ELSE LET e == NotParenEnd(s, i + 3)
         IN  IF Slice(s, i, i + 3) = "$((" /\ e > i + 3 /\ e + 2 <= Len(s)
                /\ Slice(s, e, e + 2) = "))"
             THEN <<<<Slice(s, i, e + 2), Slice(s, i + 3, e)>>>> \o ArithmeticMatches(s, e + 2)
             ELSE ArithmeticMatches(s, i + 1)

\* every outcome of substituteArithmetic: each match ranges over the map anew
RECURSIVE ReplaceArithmetic(_, _, _, _)
ReplaceArithmetic(result, matches, k, c) ==
    IF k > Len(matches) THEN {result}
    ELSE UNION {ReplaceArithmetic(
                    ReplaceFirst(result, matches[k][1], ArithmeticValue(matches[k][2], c, o)),
                    matches, k + 1, c) : o \in SortedOrders(c.Variables)}

substituteArithmetic(line, c) == ReplaceArithmetic(line, ArithmeticMatches(line, 0), 1, c)

\* every outcome of LineashContext.SubstituteVariables
SubstituteVariables(line, c) ==
    {DollarPass(substitutePositionalParams(a, c), c.Variables, o, 1) :
        a \in substituteArithmetic(line, c), o \in SortedOrders(c.Variables)}

-----------------------------------------------------------------------------
(* internal/lineash.go: parsing and conditions *)

NotAssignment == [ok |-> FALSE, key |-> "", value |-> ""]

parseVariableAssignment(line0) ==
    LET line == TrimSpace(line0)
        eqIndex == Index(line, "=")
    IN  IF ~Contains(line, "=") THEN NotAssignment
        ELSE IF Contains(line, "-s") \/ Contains(line, "--set") \/ Contains(line, "--args")
            THEN NotAssignment
        ELSE IF eqIndex > 0 /\ ~Contains(Slice(line, 0, eqIndex), " ") THEN
            [ok |-> TRUE,
             key |-> TrimSpace(Slice(line, 0, eqIndex)),
             value |-> Trim(TrimSpace(From(line, eqIndex + 1)), Quotes)]
        ELSE NotAssignment

RECURSIVE ParseWords(_, _, _, _)
ParseWords(line, i, current, quoteChar) ==
    IF i >= Len(line) THEN (IF current # "" THEN <<current>> ELSE <<>>)
    ELSE LET char == At(line, i)
         IN  IF char \in Quotes THEN
                 IF quoteChar = "" THEN ParseWords(line, i + 1, current, char)
                 ELSE IF char = quoteChar THEN ParseWords(line, i + 1, current, "")
                 ELSE ParseWords(line, i + 1, current \o char, quoteChar)
             ELSE IF char = " " /\ quoteChar = "" THEN
                 (IF current # "" THEN <<current>> ELSE <<>>) \o ParseWords(line, i + 1, "", "")
             ELSE ParseWords(line, i + 1, current \o char, quoteChar)

parseCommand(line) == ParseWords(line, 0, "", "")

RECURSIVE JoinWords(_)
JoinWords(parts) ==
    IF Len(parts) = 0 THEN ""
    ELSE IF Len(parts) = 1 THEN parts[1]
    ELSE parts[1] \o " " \o JoinWords(Tail(parts))

stripEchoQuotes(cmdLine) ==
    IF Len(parseCommand(cmdLine)) = 0 THEN cmdLine ELSE JoinWords(parseCommand(cmdLine))

OperatorsShortFirst == <<"<", ">", "=", "<=", ">=", "==", "!=">>

\* the operators of evaluateCondition, in the order they are tried
Operators == <<"<=", ">=", "==", "!=", "<", ">", "=">>

Compare(op, l0, r0) ==
    LET l == TrimSpace(l0)
        r == TrimSpace(r0)
        numeric == IsInt(l) /\ IsInt(r)
    IN  CASE op = "<=" -> IF numeric THEN Atoi(l) <= Atoi(r) ELSE (l = r \/ StringLess(l, r))
          [] op = ">=" -> IF numeric THEN Atoi(l) >= Atoi(r) ELSE ~StringLess(l, r)
          [] op = "==" -> l = r
          [] op = "!=" -> l # r
          [] op = "<" -> IF numeric THEN Atoi(l) < Atoi(r) ELSE StringLess(l, r)
          [] op = ">" -> IF numeric THEN Atoi(l) > Atoi(r) ELSE (l # r /\ ~StringLess(l, r))
          [] op = "=" -> l = r

\* the value of ctx.Variables[name], "" when the name is not bound
Lookup(c, name) == IF name \in DOMAIN c.Variables THEN c.Variables[name] ELSE ""

\* an operand that still starts with `$` is looked up in the scope
Operand(c, text) ==
    LET t == Trim(TrimSpace(text), Quotes)
    IN  IF HasPrefix(t, "$") THEN Lookup(c, Trim(TrimPrefix(t, "$"), {"{", "}"})) ELSE t

RECURSIVE FirstOperator(_, _)
FirstOperator(condition, k) ==
    IF k > Len(Operators) THEN 0
    ELSE IF Index(condition, Operators[k]) > 0 THEN k
    ELSE FirstOperator(condition, k + 1)

evaluateCondition(c, condition0) ==
    LET condition == TrimSpace(condition0)
        k == FirstOperator(condition, 1)
        idx == Index(condition, Operators[k])
    IN  IF k > 0 THEN
            Compare(Operators[k], Operand(c, Slice(condition, 0, idx)),
                    Operand(c, From(condition, idx + Len(Operators[k]))))
        ELSE IF HasPrefix(condition, "-n ") THEN
            Lookup(c, Trim(Trim(TrimSpace(TrimPrefix(condition, "-n")), {"\"", "'", "$"}),
                           {"{", "}"})) # ""
        ELSE IF HasPrefix(condition, "$") THEN
            Lookup(c, Trim(Trim(condition, {"$", "\"", "'"}), {"{", "}"})) # ""
        ELSE FALSE

Line(ls, i) == TrimSpace(ls[i + 1])

IsOpener(line) == HasPrefix(line, "if ") \/ HasPrefix(line, "for ") \/ HasPrefix(line, "while ")
IfOpener(line) == HasPrefix(line, "if ")
LoopOpener(line) == HasPrefix(line, "for ") \/ HasPrefix(line, "while ")

\* the test that raises the depth in each of the three findMatching functions
Opens(closers, line) ==
    IF closers = {"end"} THEN IsOpener(line)
    ELSE IF closers = {"end", "fi"} THEN IfOpener(line)
    ELSE LoopOpener(line)

\* the scan shared by the three findMatching functions: an opening line
\* raises the depth, a line in closers lowers it
RECURSIVE MatchScan(_, _, _, _)
MatchScan(ls, i, depth, closers) ==
    IF i >= Len(ls) THEN Len(ls)
    ELSE LET d1 == IF Opens(closers, Line(ls, i)) THEN depth + 1 ELSE depth
         IN  IF Line(ls, i) \in closers THEN
                 (IF d1 - 1 = 0 THEN i ELSE MatchScan(ls, i + 1, d1 - 1, closers))
             ELSE MatchScan(ls, i + 1, d1, closers)

findMatchingEnd(ls, startIndex) == MatchScan(ls, startIndex + 1, 1, {"end"})

findMatchingEndOrFi(ls, ifIndex) == MatchScan(ls, ifIndex + 1, 1, {"end", "fi"})

findMatchingEndOrDone(ls, forIndex) == MatchScan(ls, forIndex + 1, 1, {"end", "done"})

\* `for bodyStart < endIndex && lines[bodyStart] == "do" { bodyStart++ }`
RECURSIVE BodyStart(_, _, _)
BodyStart(ls, i, endIndex) ==
    IF i < endIndex /\ Line(ls, i) = "do" THEN BodyStart(ls, i + 1, endIndex) ELSE i

-----------------------------------------------------------------------------
(* internal/lineash.go: the interpreter *)

\* most commands one run dispatches
MaxTrace == 6

NoBlock ==
    [kind |-> "none", varName |-> "", values |-> <<>>, vi |-> 0, condition |-> "",
     bodyStart |-> 0, endIndex |-> 0, j |-> 0]

Bind(c, key, value) == [c EXCEPT !.Variables = (key :> value) @@ c.Variables]

IsWorkflowCommand(cmdName) == cmdName \in workflows

\* a dispatch that sends every line to the host shell
DispatchedShellOnly(line, at, failed) ==
    [via |-> "shell", name |-> "", args |-> <<>>, at |-> at, failed |-> failed,
     text |-> IF HasPrefix(TrimSpace(line), "echo ") THEN stripEchoQuotes(line) ELSE line]

\* what reaches the execution boundary for a substituted line: the workflow
\* runner when the first word names a workflow, the host shell otherwise;
\* failed tells whether the command returned an error
Dispatched(line, at, failed) ==
    LET parts == parseCommand(line)
    IN  IF IsWorkflowCommand(parts[1]) THEN
            [via |-> "workflow", name |-> parts[1], args |-> Tail(parts), text |-> line,
             at |-> at, failed |-> failed]
        ELSE
            [via |-> "shell", name |-> "", args |-> <<>>, at |-> at, failed |-> failed,
             text |-> IF HasPrefix(TrimSpace(line), "echo ") THEN stripEchoQuotes(line) ELSE line]

\* the outcomes of substituting each element of a sequence of texts in turn
RECURSIVE SubstituteEach(_, _)
SubstituteEach(texts, c) ==
    IF texts = <<>> THEN {<<>>}
    ELSE {<<h>> \o t : h \in SubstituteVariables(Head(texts), c),
                       t \in SubstituteEach(Tail(texts), c)}

\* the value words with a trailing `do` kept
ForValuesKeepDo(line) ==
    LET parts == Fields(line, 0, "")
        values == SubSeq(parts, 4, Len(parts))
    IN  [i \in DOMAIN values |-> Trim(values[i], Quotes)]

\* handleForLoop: the value words of a well-formed `for NAME in ...` line
ForValues(line) ==
    LET parts == Fields(line, 0, "")
        values == SubSeq(parts, 4, Len(parts))
        kept == IF Len(values) > 0 /\ values[Len(values)] = "do"
                THEN SubSeq(values, 1, Len(values) - 1) ELSE values
    IN  [i \in DOMAIN kept |-> Trim(kept[i], Quotes)]

ForWellFormed(line) ==
    LET parts == Fields(line, 0, "")
    IN  Len(parts) >= 4 /\ parts[3] = "in"

\* handleIfStatement: the condition text before substitution
IfCondition(line) == TrimSpace(Trim(TrimSpace(TrimPrefix(line, "if ")), {"[", "]"}))

WhileCondition(line) == TrimSpace(TrimPrefix(line, "while "))

\* an if block whose else branch is never found
ElseIndexNone(ls, i, endIndex) == -1

\* the first `else` line of an if block, -1 when there is none
RECURSIVE ElseIndex(_, _, _)
ElseIndex(ls, i, endIndex) ==
    IF i >= endIndex THEN -1
    ELSE IF Line(ls, i) = "else" THEN i
    ELSE ElseIndex(ls, i + 1, endIndex)

AtTop == pc = "top" /\ ip < Len(lines)
TopLine == Line(lines, ip)
TopIsPlain ==
    /\ TopLine # "" /\ ~HasPrefix(TopLine, "#")
    /\ ~parseVariableAssignment(TopLine).ok
    /\ ~IsOpener(TopLine)

\* LineashMain and ExecuteLineashScript: the script path is all that is
\* passed on, and NewLineashContext gives the context empty Args
LineashMain ==
    /\ pc = "cli"
    /\ ctx' = [Variables |-> <<>>, Args |-> <<>>]
    /\ pc' = "top"
    /\ UNCHANGED <<goos, runVars, buildVars, subst, lines, argv, workflows, ip, blk, trace, failures>>

\* ExecuteLines: `for i < len(lines)` ends and nil is returned
Finish ==
    /\ pc = "top" /\ ip >= Len(lines)
    /\ pc' = "done"
    /\ UNCHANGED <<goos, runVars, buildVars, subst, lines, argv, ctx, workflows, ip, blk, trace, failures>>

\* ExecuteLines: an empty line, a comment or the shebang
TopSkip ==
    /\ AtTop
    /\ TopLine = "" \/ HasPrefix(TopLine, "#")
    /\ ip' = ip + 1
    /\ UNCHANGED <<goos, runVars, buildVars, subst, lines, argv, ctx, workflows, pc, blk, trace, failures>>

\* ExecuteLines: VAR=value
TopAssign ==
    /\ AtTop
    /\ TopLine # "" /\ ~HasPrefix(TopLine, "#")
    /\ parseVariableAssignment(TopLine).ok
    /\ \E r \in SubstituteVariables(parseVariableAssignment(TopLine).value, ctx) :
          /\ ~r.hang
          /\ ctx' = Bind(ctx, parseVariableAssignment(TopLine).key, r.s)
    /\ ip' = ip + 1
    /\ UNCHANGED <<goos, runVars, buildVars, subst, lines, argv, workflows, pc, blk, trace, failures>>

\* the line number that the error returned by ExecuteLines carries
ErrorLine == ip + 1

\* a top level that goes on to the next line after a failure
TopCommandGoingOn ==
    /\ AtTop /\ TopIsPlain
    /\ \E r \in SubstituteVariables(TopLine, ctx) :
          /\ ~r.hang
          /\ IF Len(parseCommand(r.s)) = 0 THEN UNCHANGED <<trace, failures>>
             ELSE
                 /\ Len(trace) < MaxTrace
                 /\ \/ /\ trace' = Append(trace, Dispatched(r.s, ip, FALSE))
                       /\ UNCHANGED failures
                    \/ /\ failures > 0
                       /\ trace' = Append(trace, Dispatched(r.s, ip, TRUE))
                       /\ failures' = failures - 1
    /\ ip' = ip + 1
    /\ UNCHANGED <<goos, runVars, buildVars, subst, lines, argv, ctx, workflows, blk, pc>>

\* ExecuteLines: a command line, which the boundary runs or fails; a
\* failure returns the error of line i+1
TopCommand ==
    /\ AtTop /\ TopIsPlain
    /\ \E r \in SubstituteVariables(TopLine, ctx) :
          /\ ~r.hang
          /\ IF Len(parseCommand(r.s)) = 0 THEN
                 /\ ip' = ip + 1
                 /\ UNCHANGED <<pc, trace, failures>>
             ELSE
                 /\ Len(trace) < MaxTrace
                 /\ \/ /\ trace' = Append(trace, Dispatched(r.s, ip, FALSE))
                       /\ ip' = ip + 1
                       /\ UNCHANGED <<pc, failures>>
                    \/ /\ failures > 0
                       /\ trace' = Append(trace, Dispatched(r.s, ip, TRUE))
                       /\ failures' = failures - 1
                       /\ pc' = "failed"
                       /\ UNCHANGED ip
    /\ UNCHANGED <<goos, runVars, buildVars, subst, lines, argv, ctx, workflows, blk>>

\* handleIfStatement up to the choice of the branch
TopIf ==
    /\ AtTop
    /\ ~parseVariableAssignment(TopLine).ok
    /\ HasPrefix(TopLine, "if ")
    /\ \E r \in SubstituteVariables(IfCondition(TopLine), ctx) :
          /\ ~r.hang
          /\ LET endIndex == findMatchingEndOrFi(lines, ip)
                 elseIndex == ElseIndex(lines, ip + 1, endIndex)
             IN  IF evaluateCondition(ctx, r.s) THEN
                     /\ pc' = "body"
                     /\ blk' = [NoBlock EXCEPT !.kind = "if", !.endIndex = endIndex,
                                               !.bodyStart = ip + 1, !.j = ip + 1]
                     /\ UNCHANGED ip
                 ELSE IF elseIndex > 0 THEN
                     /\ pc' = "body"
                     /\ blk' = [NoBlock EXCEPT !.kind = "else", !.endIndex = endIndex,
                                               !.bodyStart = elseIndex + 1, !.j = elseIndex + 1]
                     /\ UNCHANGED ip
                 ELSE
                     /\ ip' = endIndex + 1
                     /\ UNCHANGED <<pc, blk>>
    /\ UNCHANGED <<goos, runVars, buildVars, subst, lines, argv, ctx, workflows, trace, failures>>

\* handleForLoop up to the binding of the first value
TopFor ==
    /\ AtTop
    /\ ~parseVariableAssignment(TopLine).ok
    /\ HasPrefix(TopLine, "for ")
    /\ IF ~ForWellFormed(TopLine) THEN
           /\ ip' = ip + 1
           /\ UNCHANGED <<pc, blk, ctx>>
       ELSE
           \E rs \in SubstituteEach(ForValues(TopLine), ctx) :
              /\ \A i \in DOMAIN rs : ~rs[i].hang
              /\ LET endIndex == findMatchingEndOrDone(lines, ip)
                     bodyStart == BodyStart(lines, ip + 1, endIndex)
                     varName == Fields(TopLine, 0, "")[2]
                 IN  IF Len(rs) = 0 THEN
                         /\ ip' = endIndex + 1
                         /\ UNCHANGED <<pc, blk, ctx>>
                     ELSE
                         /\ pc' = "body"
                         /\ blk' = [NoBlock EXCEPT !.kind = "for", !.varName = varName,
                                       !.values = [i \in DOMAIN rs |-> rs[i].s], !.vi = 1,
                                       !.bodyStart = bodyStart, !.endIndex = endIndex,
                                       !.j = bodyStart]
                         /\ ctx' = Bind(ctx, varName, rs[1].s)
                         /\ UNCHANGED ip
    /\ UNCHANGED <<goos, runVars, buildVars, subst, lines, argv, workflows, trace, failures>>

\* handleWhileLoop up to the first evaluation of the condition
TopWhile ==
    /\ AtTop
    /\ ~parseVariableAssignment(TopLine).ok
    /\ HasPrefix(TopLine, "while ")
    /\ \E r \in SubstituteVariables(WhileCondition(TopLine), ctx) :
          /\ ~r.hang
          /\ LET endIndex == findMatchingEnd(lines, ip)
                 bodyStart == BodyStart(lines, ip + 1, endIndex)
             IN  IF evaluateCondition(ctx, r.s) THEN
                     /\ pc' = "body"
                     /\ blk' = [NoBlock EXCEPT !.kind = "while",
                                   !.condition = WhileCondition(TopLine),
                                   !.bodyStart = bodyStart, !.endIndex = endIndex,
                                   !.j = bodyStart]
                     /\ UNCHANGED ip
                 ELSE
                     /\ ip' = endIndex + 1
                     /\ UNCHANGED <<pc, blk>>
    /\ UNCHANGED <<goos, runVars, buildVars, subst, lines, argv, ctx, workflows, trace, failures>>

InBody == pc = "body"
BodyLine == Line(lines, blk.j)

\* the lines a body loop passes over with `continue`
SkipWords == IF blk.kind = "if" THEN {"then"}
             ELSE IF blk.kind = "else" THEN {} ELSE {"do"}

\* the lines a body loop stops at with `break`
BreakWords == IF blk.kind = "if" THEN {"else", "elif", "end", "fi"}
              ELSE IF blk.kind = "else" THEN {"end", "fi"} ELSE {"end", "done"}

BodyOver ==
    IF blk.j >= blk.endIndex THEN TRUE
    ELSE BodyLine \notin SkipWords /\ BodyLine \in BreakWords
BodyRuns == blk.j < blk.endIndex /\ BodyLine \notin SkipWords /\ BodyLine \notin BreakWords

\* a body loop: `then` or `do` is passed over
BodySkip ==
    /\ InBody
    /\ blk.j < blk.endIndex /\ BodyLine \in SkipWords
    /\ blk' = [blk EXCEPT !.j = blk.j + 1]
    /\ UNCHANGED <<goos, runVars, buildVars, subst, lines, argv, ctx, workflows, pc, ip, trace, failures>>

\* executeLine: an empty line or a comment
BodyBlank ==
    /\ InBody /\ BodyRuns
    /\ BodyLine = "" \/ HasPrefix(BodyLine, "#")
    /\ blk' = [blk EXCEPT !.j = blk.j + 1]
    /\ UNCHANGED <<goos, runVars, buildVars, subst, lines, argv, ctx, workflows, pc, ip, trace, failures>>

\* executeLine: VAR=value
BodyAssign ==
    /\ InBody /\ BodyRuns
    /\ BodyLine # "" /\ ~HasPrefix(BodyLine, "#")
    /\ parseVariableAssignment(BodyLine).ok
    /\ \E r \in SubstituteVariables(parseVariableAssignment(BodyLine).value, ctx) :
          /\ ~r.hang
          /\ ctx' = Bind(ctx, parseVariableAssignment(BodyLine).key, r.s)
    /\ blk' = [blk EXCEPT !.j = blk.j + 1]
    /\ UNCHANGED <<goos, runVars, buildVars, subst, lines, argv, workflows, pc, ip, trace, failures>>

\* a handler that returns the error of a body line
BodyCommandAborting ==
    /\ InBody /\ BodyRuns
    /\ BodyLine # "" /\ ~HasPrefix(BodyLine, "#")
    /\ ~parseVariableAssignment(BodyLine).ok
    /\ \E r \in SubstituteVariables(BodyLine, ctx) :
          /\ ~r.hang
          /\ IF Len(parseCommand(r.s)) = 0 THEN
                 /\ blk' = [blk EXCEPT !.j = blk.j + 1]
                 /\ UNCHANGED <<trace, failures, pc>>
             ELSE
                 /\ Len(trace) < MaxTrace
                 /\ \/ /\ trace' = Append(trace, Dispatched(r.s, blk.j, FALSE))
                       /\ blk' = [blk EXCEPT !.j = blk.j + 1]
                       /\ UNCHANGED <<failures, pc>>
                    \/ /\ failures > 0
                       /\ trace' = Append(trace, Dispatched(r.s, blk.j, TRUE))
                       /\ failures' = failures - 1
                       /\ pc' = "failed"
                       /\ UNCHANGED blk
    /\ UNCHANGED <<goos, runVars, buildVars, subst, lines, argv, ctx, workflows, ip>>

\* executeLine: a command line; the handler drops the error it returns
BodyCommand ==
    /\ InBody /\ BodyRuns
    /\ BodyLine # "" /\ ~HasPrefix(BodyLine, "#")
    /\ ~parseVariableAssignment(BodyLine).ok
    /\ \E r \in SubstituteVariables(BodyLine, ctx) :
          /\ ~r.hang
          /\ IF Len(parseCommand(r.s)) = 0 THEN UNCHANGED <<trace, failures>>
             ELSE
                 /\ Len(trace) < MaxTrace
                 /\ \/ /\ trace' = Append(trace, Dispatched(r.s, blk.j, FALSE))
                       /\ UNCHANGED failures
                    \/ /\ failures > 0
                       /\ trace' = Append(trace, Dispatched(r.s, blk.j, TRUE))
                       /\ failures' = failures - 1
    /\ blk' = [blk EXCEPT !.j = blk.j + 1]
    /\ UNCHANGED <<goos, runVars, buildVars, subst, lines, argv, ctx, workflows, pc, ip>>

\* a handler that returns the index its block ends at
IfReturnsAtEnd ==
    /\ InBody /\ blk.kind \in {"if", "else"}
    /\ BodyOver
    /\ pc' = "top"
    /\ ip' = blk.endIndex
    /\ blk' = NoBlock
    /\ UNCHANGED <<goos, runVars, buildVars, subst, lines, argv, ctx, workflows, trace, failures>>

\* handleIfStatement: the branch is over, `return endIndex + 1`
IfReturns ==
    /\ InBody /\ blk.kind \in {"if", "else"}
    /\ BodyOver
    /\ pc' = "top"
    /\ ip' = blk.endIndex + 1
    /\ blk' = NoBlock
    /\ UNCHANGED <<goos, runVars, buildVars, subst, lines, argv, ctx, workflows, trace, failures>>

\* a loop that substitutes the value word again when it binds it
ForNextResubstituting ==
    /\ InBody /\ blk.kind = "for"
    /\ BodyOver
    /\ blk.vi < Len(blk.values)
    /\ \E rs \in SubstituteEach(ForValues(Line(lines, ip)), ctx) :
          /\ ~rs[blk.vi + 1].hang
          /\ ctx' = Bind(ctx, blk.varName, rs[blk.vi + 1].s)
    /\ blk' = [blk EXCEPT !.vi = blk.vi + 1, !.j = blk.bodyStart]
    /\ UNCHANGED <<goos, runVars, buildVars, subst, lines, argv, workflows, pc, ip, trace, failures>>

\* handleForLoop: a pass over the body is over and the next value is bound
ForNext ==
    /\ InBody /\ blk.kind = "for"
    /\ BodyOver
    /\ blk.vi < Len(blk.values)
    /\ ctx' = Bind(ctx, blk.varName, blk.values[blk.vi + 1])
    /\ blk' = [blk EXCEPT !.vi = blk.vi + 1, !.j = blk.bodyStart]
    /\ UNCHANGED <<goos, runVars, buildVars, subst, lines, argv, workflows, pc, ip, trace, failures>>

\* a handler that returns the index of its opener
ForReturnsToOpener ==
    /\ InBody /\ blk.kind = "for"
    /\ BodyOver
    /\ blk.vi >= Len(blk.values)
    /\ pc' = "top"
    /\ blk' = NoBlock
    /\ UNCHANGED <<goos, runVars, buildVars, subst, lines, argv, ctx, workflows, ip, trace, failures>>

\* handleForLoop: the last pass is over, `return endIndex + 1`
ForReturns ==
    /\ InBody /\ blk.kind = "for"
    /\ BodyOver
    /\ blk.vi >= Len(blk.values)
    /\ pc' = "top"
    /\ ip' = blk.endIndex + 1
    /\ blk' = NoBlock
    /\ UNCHANGED <<goos, runVars, buildVars, subst, lines, argv, ctx, workflows, trace, failures>>

\* handleWhileLoop: a pass is over, the condition is substituted and
\* evaluated again and holds
WhileAgain ==
    /\ InBody /\ blk.kind = "while"
    /\ BodyOver
    /\ \E r \in SubstituteVariables(blk.condition, ctx) :
          ~r.hang /\ evaluateCondition(ctx, r.s)
    /\ blk' = [blk EXCEPT !.j = blk.bodyStart]
    /\ UNCHANGED <<goos, runVars, buildVars, subst, lines, argv, ctx, workflows, pc, ip, trace, failures>>

\* a loop that gives up after one pass, whatever the condition
WhileReturnsAfterPass ==
    /\ InBody /\ blk.kind = "while"
    /\ BodyOver
    /\ pc' = "top"
    /\ ip' = blk.endIndex + 1
    /\ blk' = NoBlock
    /\ UNCHANGED <<goos, runVars, buildVars, subst, lines, argv, ctx, workflows, trace, failures>>

\* handleWhileLoop: the condition is false, `return endIndex + 1`
WhileReturns ==
    /\ InBody /\ blk.kind = "while"
    /\ BodyOver
    /\ \E r \in SubstituteVariables(blk.condition, ctx) :
          ~r.hang /\ ~evaluateCondition(ctx, r.s)
    /\ pc' = "top"
    /\ ip' = blk.endIndex + 1
    /\ blk' = NoBlock
    /\ UNCHANGED <<goos, runVars, buildVars, subst, lines, argv, ctx, workflows, trace, failures>>

\* the texts the step at hand hands to SubstituteVariables
StepTexts ==
    IF pc = "top" /\ ip < Len(lines) THEN
        IF TopLine = "" \/ HasPrefix(TopLine, "#") THEN {}
        ELSE IF parseVariableAssignment(TopLine).ok THEN {parseVariableAssignment(TopLine).value}
        ELSE IF HasPrefix(TopLine, "if ") THEN {IfCondition(TopLine)}
        ELSE IF HasPrefix(TopLine, "for ") THEN
            (IF ForWellFormed(TopLine) THEN Range(ForValues(TopLine)) ELSE {})
        ELSE IF HasPrefix(TopLine, "while ") THEN {WhileCondition(TopLine)}
        ELSE {TopLine}
    ELSE IF pc = "body" THEN
        IF BodyOver THEN (IF blk.kind = "while" THEN {blk.condition} ELSE {})
        ELSE IF ~BodyRuns \/ BodyLine = "" \/ HasPrefix(BodyLine, "#") THEN {}
        ELSE IF parseVariableAssignment(BodyLine).ok THEN {parseVariableAssignment(BodyLine).value}
        ELSE {BodyLine}
    ELSE {}

\* a `$name` loop of SubstituteVariables spins: the script never goes on
Spins ==
    /\ \E t \in StepTexts : \E r \in SubstituteVariables(t, ctx) : r.hang
    /\ pc' = "hang"
    /\ UNCHANGED <<goos, runVars, buildVars, subst, lines, argv, ctx, workflows, ip, blk, trace, failures>>

-----------------------------------------------------------------------------
(* The builds that are checked *)

VarNames == {"a", "b", "n"}
DeclaredValues == {"A", "{b}", "$b", "$n", "/p"}
OverrideValues == {"B", "$n"}
ArgTexts == {"{n}", "$n", "${n}", "x{n}-$n", "{a}", "$a", "{m}", "-v", "{a}/c", "./{n}//q"}

Maps(names, values, max) ==
    UNION {[S -> values] : S \in {T \in SUBSET names : Cardinality(T) <= max}}

ArgLists == UNION {[1..k -> ArgTexts] : k \in 1..MaxArgs}

\* the record of DOCUMENTATION.md, "Nested Variables"
NestedVariablesDoc ==
    [Command |-> "cat", Subcommand |-> "", Args |-> <<"{config_path}">>,
     Variables |-> ("base_path" :> "/home/user") @@ ("config_path" :> "{base_path}/config")]

\* arguments without references: flags, short flags of the Windows shell,
\* drive-letter paths, relative paths and absolute paths
PathArgTexts ==
    {"/?", "/C", "\\?", "/a/", "--help", "-v", "C:/Users/x", "C:\\x", "C:", "a:b",
     "./a/b", "../x", "./", "/home/user/file", "path/to/file", "a/b"}

\* records with and without a subcommand, with no, one or two arguments
PathConfigs ==
    {[Command |-> "tool", Subcommand |-> sub, Args |-> args, Variables |-> <<>>] :
        sub \in {"", "run"},
        args \in {<<>>} \cup {<<t>> : t \in PathArgTexts} \cup {<<"-v", t>> : t \in PathArgTexts}}

Configs ==
    {[Command |-> "echo", Subcommand |-> "", Args |-> args, Variables |-> v] :
        args \in ArgLists, v \in Maps(VarNames, DeclaredValues, MaxDeclared)}
    \cup {NestedVariablesDoc}
    \cup PathConfigs

NoCli == [args |-> <<>>, vars |-> <<>>, remainingArgs |-> <<>>, returned |-> FALSE]
NoYaml == [docs |-> <<>>, configs |-> <<>>, status |-> "none"]
NoMulti == [configs |-> <<>>, overrideVars |-> <<>>, continueOnError |-> FALSE, i |-> 0,
            phase |-> "build", cmd |-> <<>>, ran |-> <<>>, status |-> "idle", errAt |-> 0]

RunIdle == cli = NoCli /\ yaml = NoYaml /\ multi = NoMulti

NoSubst == [kind |-> "none", text |-> "", scope |-> <<>>, stage |-> 0, once |-> "", twice |-> ""]
NoContext == [Variables |-> <<>>, Args |-> <<>>]

ScriptIdle ==
    /\ lines = <<>>
    /\ argv = <<>>
    /\ ctx = NoContext
    /\ workflows = {}
    /\ pc = "idle"
    /\ ip = 0
    /\ blk = NoBlock
    /\ trace = <<>>
    /\ failures = 0

InitBuild ==
    /\ goos \in {"linux", "windows"}
    /\ config \in Configs
    /\ overrideVars \in Maps(VarNames, OverrideValues, MaxOverride)
    /\ built = NotBuilt
    /\ subst = NoSubst
    /\ ScriptIdle
    /\ RunIdle

NextBuild == BuildCommandFails \/ BuildCommandReturns \/ BuildCommandSpins

SpecBuild == InitBuild /\ [][NextBuild]_vars

BuildIdle ==
    /\ goos = "linux"
    /\ config = [Command |-> "", Subcommand |-> "", Args |-> <<>>, Variables |-> <<>>]
    /\ overrideVars = <<>>
    /\ built = NotBuilt

-----------------------------------------------------------------------------
(* The substitutions that are checked: one text and one scope, substituted *)
(* once and then once more                                                 *)

\* longest text handed to the substitutions
MaxText == 3

SubstAlphabet == {"$", "{", "}", "a", "b", "1"}
SubstValues == {"", "b", "x", "1", "$b"}

RECURSIVE Texts(_)
Texts(n) ==
    IF n = 0 THEN {""}
    ELSE Texts(n - 1) \cup {t \o c : t \in {u \in Texts(n - 1) : Len(u) = n - 1}, c \in SubstAlphabet}

\* "template" is SubstituteVariablesWithSeparateMaps with the scope as both
\* maps, "script" is LineashContext.SubstituteVariables
Substitute(kind, text, scope) ==
    IF kind = "template" THEN SubstituteVariablesWithSeparateMaps(text, scope, scope)
    ELSE SubstituteVariables(text, [Variables |-> scope, Args |-> <<>>])

InitSubst ==
    /\ subst \in {[kind |-> k, text |-> t, scope |-> sc, stage |-> 0, once |-> "", twice |-> ""] :
                    k \in {"template", "script"}, t \in Texts(MaxText),
                    sc \in Maps({"a", "b"}, SubstValues, 2)}
    /\ BuildIdle
    /\ ScriptIdle
    /\ RunIdle

SubstituteOnce ==
    /\ subst.stage = 0
    /\ \E r \in Substitute(subst.kind, subst.text, subst.scope) :
          ~r.hang /\ subst' = [subst EXCEPT !.stage = 1, !.once = r.s]
    /\ UNCHANGED <<goos, runVars, buildVars, scriptVars>>

SubstituteTwice ==
    /\ subst.stage = 1
    /\ \E r \in Substitute(subst.kind, subst.once, subst.scope) :
          ~r.hang /\ subst' = [subst EXCEPT !.stage = 2, !.twice = r.s]
    /\ UNCHANGED <<goos, runVars, buildVars, scriptVars>>

SubstituteSpins ==
    /\ subst.stage \in {0, 1}
    /\ \E r \in Substitute(subst.kind, IF subst.stage = 0 THEN subst.text ELSE subst.once,
                           subst.scope) : r.hang
    /\ subst' = [subst EXCEPT !.stage = -1]
    /\ UNCHANGED <<goos, runVars, buildVars, scriptVars>>

NextSubst == SubstituteOnce \/ SubstituteTwice \/ SubstituteSpins

SpecSubst == InitSubst /\ [][NextSubst]_vars

-----------------------------------------------------------------------------
(* The arithmetic expressions that are evaluated *)

\* most operators of an expression
MaxOps == 2

ArithOperands == {"0", "2", "3", "4", "10"}
ArithOperators == {"+", "-", "*", "/", "%"}
BigOperand == "99999999999999999999"

\* an expression is its first operand and the operator-operand pairs after it
ArithExprs ==
    {[first |-> f, rest |-> r] :
        f \in ArithOperands,
        r \in UNION {[1..k -> ArithOperators \X ArithOperands] : k \in 0..MaxOps}}
    \cup {[first |-> "0", rest |-> <<<<"+", BigOperand>>>>],
          [first |-> "2", rest |-> <<<<"*", BigOperand>>, <<"+", "3">>>>],
          [first |-> BigOperand, rest |-> <<<<"/", BigOperand>>>>]}

\* the scope the expression is evaluated in: empty, or as the line `2=5`
\* leaves it
ArithScopes == {<<>>, "2" :> "5"}

\* the text of an expression, its parts separated by sep
RECURSIVE ArithText(_, _, _)
ArithText(e, sep, i) ==
    IF i > Len(e.rest) THEN ""
    ELSE sep \o e.rest[i][1] \o sep \o e.rest[i][2] \o ArithText(e, sep, i + 1)

InitArith ==
    /\ subst \in {[kind |-> "arith", text |-> "$((" \o e.first \o ArithText(e, sep, 1) \o "))",
                    input |-> e, scope |-> sc, stage |-> 0, once |-> "", twice |-> ""] :
                    e \in ArithExprs, sep \in {"", " "}, sc \in ArithScopes}
    /\ BuildIdle
    /\ ScriptIdle
    /\ RunIdle

\* substituteArithmetic on a line that is one `$((...))`
EvaluateArithmetic ==
    /\ subst.kind = "arith" /\ subst.stage = 0
    /\ \E r \in substituteArithmetic(subst.text, [Variables |-> subst.scope, Args |-> <<>>]) :
          subst' = [subst EXCEPT !.stage = 1, !.once = r]
    /\ UNCHANGED <<goos, runVars, buildVars, scriptVars>>

NextArith == EvaluateArithmetic

SpecArith == InitArith /\ [][NextArith]_vars

-----------------------------------------------------------------------------
(* The scripts that are run *)

\* most values of a for loop
MaxValues == 3
\* largest limit of a counting while loop
MaxCount == 3
\* most commands of a run that the host fails
MaxFailures == 1

ForWords == {"a", "$w"}
ValueLists == UNION {[1..k -> ForWords] : k \in 1..MaxValues} \cup {<<"a", "b", "c">>}
ForBodies == {<<"echo $v">>, <<"seen=$v", "echo $v $seen">>, <<"deploy $v">>}

\* `for v in ...` in the friendly spelling, with a `do` line and `done`, and
\* with `do` on the opening line
ForScript(vals, body, style) ==
    <<"w=x">>
    \o (IF style = "end" THEN <<"for v in " \o JoinWords(vals)>> \o body \o <<"end">>
        ELSE IF style = "done" THEN <<"for v in " \o JoinWords(vals), "do">> \o body \o <<"done">>
        ELSE <<"for v in " \o JoinWords(vals) \o " do">> \o body \o <<"done">>)
    \o <<"echo after $v">>

ForStyles == {"end", "done", "do"}
ForScripts == {ForScript(vals, body, style) :
                  vals \in ValueLists, body \in ForBodies, style \in ForStyles}

WhileOps == {"<=", "<"}
WhileStarts == {1, 2}

WhileScript(start, op, limit) ==
    <<"counter=" \o Itoa(start),
      "while $counter " \o op \o " " \o Itoa(limit),
      "echo $counter",
      "counter=$((counter+1))",
      "end",
      "echo after">>

WhileScripts == {WhileScript(start, op, limit) :
                    start \in WhileStarts, op \in WhileOps, limit \in 0..MaxCount}

\* an if block on `$x == 1`, x being bound to 1 or to 2 on the first line:
\* with or without a `then` line, with or without an else branch, the else
\* branch with or without a `then` line of its own, closed by `end` or `fi`
IfScript(x, hasThen, hasElse, elseThen, term) ==
    <<"x=" \o x, "if $x == 1">>
    \o (IF hasThen THEN <<"then">> ELSE <<>>)
    \o <<"echo yes", "y=$x">>
    \o (IF hasElse THEN <<"else">> \o (IF elseThen THEN <<"then">> ELSE <<>>)
                         \o <<"echo no", "deploy no $y">>
        ELSE <<>>)
    \o <<term, "echo after $y">>

IfScripts ==
    {IfScript(x, hasThen, hasElse, elseThen, term) :
        x \in {"1", "2"}, hasThen \in BOOLEAN, hasElse \in BOOLEAN, elseThen \in BOOLEAN,
        term \in {"end", "fi"}}

\* a true branch that runs into a bare `elif` line
ElifScript ==
    <<"if 1 == 1", "echo yes", "elif", "echo maybe", "else", "echo no", "end", "echo after">>

\* the script of DOCUMENTATION.md, "Arithmetic Expressions"
ArithmeticDoc == <<"counter=1", "result=$((counter + 5 * 2))", "echo \"Result: $result\"">>

OtherScripts ==
    {<<"#!/usr/bin/env lineash", "", "x=1", "if $x == 1", "then", "", "echo yes", "else",
       "echo no", "fi", "echo after">>,
     <<"# comment", "if $x == 1", "echo yes", "else", "y=2", "echo no $y", "end">>,
     <<"if $x", "echo yes", "end", "echo after">>,
     <<"name=x", "echo $names", "echo after">>,
     <<"for v in", "echo $v", "end">>,
     ArithmeticDoc,
     ElifScript}

\* while loops whose condition holds at every evaluation: a constant one, and
\* ones whose body assigns nothing the condition reads
WhileForeverScripts ==
    {<<"while 1 == 1", "echo loop", "end", "echo after">>,
     <<"x=1", "while $x == 1", "y=$x", "end", "echo after">>,
     <<"x=1", "while $x <= 1", "do", "deploy $x", "y=2", "end", "echo after">>}

\* blocks inside blocks: a for loop in an if block, an if block in a for
\* loop, an if block in a while loop that never runs and in one that runs
\* once
NestedIfFor ==
    <<"if 1 == 1", "for v in a b", "echo $v", "end", "echo inner", "end", "echo after">>
NestedForIf ==
    <<"for v in a", "if $v == a", "echo yes", "end", "echo body", "end", "echo after">>
NestedWhileIf ==
    <<"while 1 == 2", "if 1 == 1", "echo yes", "fi", "end", "echo after">>
NestedWhileOnce ==
    <<"x=1", "while $x == 1", "x=2", "if 1 == 2", "echo yes", "else", "echo no", "end",
      "end", "echo after">>
NestedScripts == {NestedIfFor, NestedForIf, NestedWhileIf, NestedWhileOnce}

\* the counting loop in the legacy spelling, with a `do` line and `done`
LegacyWhileScript(start, limit) ==
    <<"counter=" \o Itoa(start),
      "while $counter <= " \o Itoa(limit),
      "do",
      "echo $counter",
      "counter=$((counter+1))",
      "done",
      "echo after">>

LegacyWhileScripts == {LegacyWhileScript(start, limit) : start \in WhileStarts, limit \in 0..2}

\* an if block on one comparison of two literal operands
CompareOperands == {"1", "01", "2", "10", "b"}
CompareOperators == {"<=", ">=", "==", "!=", "<", ">", "="}

CompareScript(l, op, r) ==
    <<"if " \o l \o " " \o op \o " " \o r, "echo yes", "else", "echo no", "end">>

CompareScripts ==
    {CompareScript(l, op, r) : l \in CompareOperands, op \in CompareOperators,
                               r \in CompareOperands}

\* conditions without operator on the variable x, which the first line
\* binds to a non-empty string, binds to the empty string or leaves unbound
TruthBindings == {<<>>, <<"x=">>, <<"x=yes">>}
TruthConditions == {"$x", "-n $x", "[ -n \"$x\" ]", "yes", "x"}

TruthScript(bind, cond) ==
    bind \o <<"if " \o cond, "echo yes", "else", "echo no", "end">>

TruthWhileScript(bind) ==
    bind \o <<"while $x", "echo loop", "x=", "end", "echo after">>

TruthScripts ==
    {TruthScript(bind, cond) : bind \in TruthBindings, cond \in TruthConditions}
    \cup {TruthWhileScript(bind) : bind \in TruthBindings}

\* an assignment followed by a command that reads the name, at the top
\* level and in the body of a for loop
AssignLines == {"host=server", "host=my-server", "n=$((9-size))", "host=\"a b\""}

AssignScript(a, inBody) ==
    LET show == "echo $" \o Slice(a, 0, Index(a, "="))
    IN  IF inBody THEN <<"size=2", "for v in a", a, show, "end">>
        ELSE <<"size=2", a, show>>

AssignScripts == {AssignScript(a, inBody) : a \in AssignLines, inBody \in BOOLEAN}

\* a for loop whose body assigns the variable its value list refers to, and
\* one whose body assigns the loop variable
RetroWords == {"a", "q"}
RetroScript(old, new) ==
    <<"w=" \o old, "for v in $w b $w", "w=" \o new, "echo $v $w", "end", "echo after $v $w">>
RebindScript(new) ==
    <<"for v in a b", "echo $v", "v=" \o new, "echo $v", "end", "echo after $v">>

RetroScripts ==
    {RetroScript(old, new) : old \in RetroWords, new \in {"z", "b"}}
    \cup {RebindScript(new) : new \in {"z", "b"}}

\* lines that refer to positional parameters, and the parameters they meet
PositionalLines ==
    {"run $1 $2", "run $0 $3", "run $2$1", "run $10 $1", "run $01 $1",
     "run $99999999999999999999", "echo \"Deploying $1 to $2\""}
PositionalArgs == {<<>>, <<"app">>, <<"my-app", "production">>, <<"$2", "x">>}

\* a line that substitutes to nothing, quoted words for either boundary,
\* blank and comment lines at the top level and in a body
DispatchScripts ==
    {<<"x=", "$x", "deploy \"a b\" 'c'  d", "echo \"hi  there\" $x.">>,
     <<"x=1", "", "# x=2", "for v in a", "", "# deploy $v", "ls \"$v\"  -l", "end">>}

\* comparisons of a variable with the empty string
EmptyConditions == {"$x == \"\"", "$x != \"\"", "\"$x\" == \"\""}

EmptyScripts == {TruthScript(bind, cond) : bind \in TruthBindings, cond \in EmptyConditions}

\* the three ways to write a variable inside $((...))
BareScript(value, sep) ==
    <<"n=" \o value,
      "echo $((n" \o sep \o "+" \o sep \o "1))",
      "echo $(($n" \o sep \o "+" \o sep \o "1))",
      "echo $((${n}" \o sep \o "+" \o sep \o "1))">>

BareScripts == {BareScript(value, sep) : value \in {"0", "5", "41"}, sep \in {"", " "}}

\* a counter that an earlier $((...)) has taken below zero
NegativeScript(sep) ==
    <<"x=$((0" \o sep \o "-" \o sep \o "1))",
      "echo $x",
      "echo $((x" \o sep \o "-" \o sep \o "1))",
      "echo $((x" \o sep \o "+" \o sep \o "2))">>

NegativeScripts == {NegativeScript(sep) : sep \in {"", " "}}

\* blocks whose opener no terminator follows
UnterminatedScripts ==
    {<<"echo a", "if 1 == 1", "echo b", "echo c">>,
     <<"echo a", "if 1 == 2", "echo b", "echo c">>,
     <<"x=1", "if $x == 2", "echo b", "else", "echo c", "echo d">>,
     <<"echo a", "for v in a b", "echo $v", "echo c">>,
     <<"n=1", "while $n <= 2", "echo $n", "n=$((n+1))">>,
     <<"echo a", "while 1 == 2", "echo b">>,
     <<"echo a", "if 1 == 1">>,
     <<"echo a", "for v in", "echo b">>}

\* runs of ExecuteLines on a context whose Args the caller has set
ApiRuns ==
    {[entry |-> "top", lines |-> ls, args |-> <<>>, argv |-> <<>>] :
        ls \in ForScripts \cup WhileScripts \cup OtherScripts \cup WhileForeverScripts
                \cup IfScripts \cup NestedScripts \cup LegacyWhileScripts
                \cup CompareScripts \cup TruthScripts \cup AssignScripts
                \cup RetroScripts \cup DispatchScripts
                \cup UnterminatedScripts \cup EmptyScripts \cup BareScripts
                \cup NegativeScripts}
    \cup {[entry |-> "top", lines |-> <<l>>, args |-> a, argv |-> <<>>] :
             l \in PositionalLines, a \in PositionalArgs}

\* runs of the lineash command
CliRuns ==
    {[entry |-> "cli", lines |-> <<l>>, args |-> <<>>, argv |-> a] :
        l \in PositionalLines, a \in PositionalArgs}

Runs == ApiRuns \cup CliRuns

InitScript ==
    /\ \E run \in Runs :
          /\ lines = run.lines
          /\ argv = run.argv
          /\ ctx = [Variables |-> <<>>, Args |-> run.args]
          /\ pc = run.entry
    /\ workflows \in {{}, {"deploy"}}
    /\ failures \in 0..MaxFailures
    /\ ip = 0
    /\ blk = NoBlock
    /\ trace = <<>>
    /\ subst = NoSubst
    /\ BuildIdle
    /\ RunIdle

NextScript ==
    \/ LineashMain
    \/ Finish \/ TopSkip \/ TopAssign \/ TopCommand \/ TopIf \/ TopFor \/ TopWhile
    \/ BodySkip \/ BodyBlank \/ BodyAssign \/ BodyCommand
    \/ IfReturns \/ ForNext \/ ForReturns \/ WhileAgain \/ WhileReturns
    \/ Spins

SpecScript == InitScript /\ [][NextScript]_vars

-----------------------------------------------------------------------------
(* internal/parser.go: ParseMultiYAML over a stream of documents.  A        *)
(* document either decodes into a CommandConfig (a missing command field    *)
(* leaves Command empty) or makes decoder.Decode return an error.           *)

\* most documents of a stream
MaxDocs == 3

DocCommands == {"", "echo", "ls"}

Document(c) ==
    [decodes |-> TRUE,
     config |-> [Command |-> c, Subcommand |-> "", Args |-> <<>>, Variables |-> <<>>]]
Malformed ==
    [decodes |-> FALSE,
     config |-> [Command |-> "", Subcommand |-> "", Args |-> <<>>, Variables |-> <<>>]]

Documents == {Document(c) : c \in DocCommands} \cup {Malformed}
Streams == UNION {[1..n -> Documents] : n \in 0..MaxDocs}

\* a loop that rejects the stream at the first document without command
RECURSIVE DecodeLoopStrict(_, _, _)
DecodeLoopStrict(docs, i, configs) ==
    IF i > Len(docs) THEN
        IF Len(configs) = 0 THEN [status |-> "err", configs |-> <<>>]
        ELSE [status |-> "ok", configs |-> configs]
    ELSE IF ~docs[i].decodes THEN [status |-> "err", configs |-> <<>>]
    ELSE IF docs[i].config.Command = "" THEN [status |-> "err", configs |-> <<>>]
    ELSE DecodeLoopStrict(docs, i + 1, Append(configs, docs[i].config))

\* ParseMultiYAML: the `for` over decoder.Decode, then the final test; i is
\* the number of the document Decode reads next, past the last one it
\* returns io.EOF
RECURSIVE DecodeLoop(_, _, _)
DecodeLoop(docs, i, configs) ==
    IF i > Len(docs) THEN
        IF Len(configs) = 0 THEN [status |-> "err", configs |-> <<>>]
        ELSE [status |-> "ok", configs |-> configs]
    ELSE IF ~docs[i].decodes THEN [status |-> "err", configs |-> <<>>]
    ELSE IF docs[i].config.Command = "" THEN DecodeLoop(docs, i + 1, configs)
    ELSE DecodeLoop(docs, i + 1, Append(configs, docs[i].config))

ParseMultiYAML(docs) == DecodeLoop(docs, 1, <<>>)

InitYaml ==
    /\ yaml \in {[docs |-> d, configs |-> <<>>, status |-> "none"] : d \in Streams}
    /\ cli = NoCli /\ multi = NoMulti
    /\ subst = NoSubst
    /\ BuildIdle
    /\ ScriptIdle

\* ParseMultiYAML returns (configs, nil)
ParseMultiYAMLReturns ==
    /\ yaml.status = "none"
    /\ ParseMultiYAML(yaml.docs).status = "ok"
    /\ yaml' = [yaml EXCEPT !.status = "ok", !.configs = ParseMultiYAML(yaml.docs).configs]
    /\ UNCHANGED <<goos, buildVars, subst, scriptVars, cli, multi>>

\* ParseMultiYAML returns (nil, err)
ParseMultiYAMLFails ==
    /\ yaml.status = "none"
    /\ ParseMultiYAML(yaml.docs).status = "err"
    /\ yaml' = [yaml EXCEPT !.status = "err"]
    /\ UNCHANGED <<goos, buildVars, subst, scriptVars, cli, multi>>

NextYaml == ParseMultiYAMLReturns \/ ParseMultiYAMLFails

SpecYaml == InitYaml /\ [][NextYaml]_vars

-----------------------------------------------------------------------------
(* Claims about BuildCommand *)

Plain(v) == ~Contains(v, "{") /\ ~Contains(v, "}") /\ ~Contains(v, "$")

Declared == config.Variables
BuiltOk == built.status = "ok"
\* the built form of argument i
BuiltArg(i) == built.cmd[Len(CmdHead(config)) + i]
Normalized(s) == IF IsPathLike(s) THEN NormalizePath(s, goos) ELSE s

\* a text made of plain characters and of `{name}` references to declared
\* names
RECURSIVE BraceOnly(_)
BraceOnly(t) ==
    IF t = "" THEN TRUE
    ELSE IF At(t, 0) = "{" THEN
        LET close == Index(t, "}")
        IN  /\ close > 1
            /\ Slice(t, 1, close) \in DOMAIN Declared
            /\ BraceOnly(From(t, close + 1))
    ELSE Plain(At(t, 0)) /\ BraceOnly(From(t, 1))

\* such a text with every reference replaced by the declared value
RECURSIVE DeclaredText(_)
DeclaredText(t) ==
    IF t = "" THEN ""
    ELSE IF At(t, 0) = "{" THEN
        Declared[Slice(t, 1, Index(t, "}"))] \o DeclaredText(From(t, Index(t, "}") + 1))
    ELSE At(t, 0) \o DeclaredText(From(t, 1))

HasBraceRef(t, name) == Contains(t, "{" \o name \o "}")

\* C1: in a built command every `{name}` reference of an argument stands
\* replaced by the value the record declares for name, whatever the override
\* map binds
C1_BraceUsesDeclared ==
    BuiltOk =>
        \A i \in DOMAIN config.Args :
            BraceOnly(config.Args[i]) =>
                BuiltArg(i) = Normalized(DeclaredText(config.Args[i]))

\* C2: a `$name` or `${name}` reference to a name bound in both maps is
\* built to the override value
C2_SigilUsesOverride ==
    BuiltOk =>
        \A i \in DOMAIN config.Args : \A name \in DOMAIN Declared \cap DOMAIN overrideVars :
            (/\ config.Args[i] \in {"$" \o name, "${" \o name \o "}"}
             /\ Plain(overrideVars[name]))
                => BuiltArg(i) = Normalized(overrideVars[name])

\* the names referenced in s, read off the text position by position
BraceNames(s) ==
    {Slice(s, p[1] + 1, p[2]) :
        p \in {q \in (0..(Len(s) - 1)) \X (0..(Len(s) - 1)) :
                  /\ q[1] + 1 < q[2]
                  /\ At(s, q[1]) = "{" /\ At(s, q[2]) = "}"
                  /\ \A k \in (q[1] + 1)..(q[2] - 1) : At(s, k) \notin {"{", "}"}}}

SigilNames(s) ==
    {Slice(s, p[1] + 1, p[2]) :
        p \in {q \in (0..(Len(s) - 1)) \X (1..Len(s)) :
                  /\ q[1] + 1 < q[2]
                  /\ At(s, q[1]) = "$" /\ IsNameStart(At(s, q[1] + 1))
                  /\ \A k \in (q[1] + 1)..(q[2] - 1) : IsNameChar(At(s, k))
                  /\ (q[2] = Len(s) \/ ~IsNameChar(At(s, q[2])))}}

\* the references of the arguments and of every value of either map that
\* neither map binds
Unbound ==
    UNION {BraceNames(t) \cup SigilNames(t) :
              t \in Range(config.Args) \cup Range(Declared) \cup Range(overrideVars)}
        \ (DOMAIN Declared \cup DOMAIN overrideVars)

\* C3: a build with an unbound reference in an argument or in a variable
\* value fails, names every such reference and returns no command; a build
\* without one does not fail
C3_UndefinedFails ==
    built.status # "none" =>
        /\ Unbound # {} => (built.status = "err" /\ built.missing = Unbound /\ built.cmd = <<>>)
        /\ Unbound = {} => built.status # "err"

\* C4: a `{name}` reference to a name only the override map binds fails the
\* build with an error naming it
C4_BraceNeedsDeclared ==
    built.status # "none" =>
        \A i \in DOMAIN config.Args : \A name \in DOMAIN overrideVars \ DOMAIN Declared :
            HasBraceRef(config.Args[i], name) => (built.status = "err" /\ name \in built.missing)

\* C6: the text `{b}` that the value of a brings in for `{a}` is in the
\* built argument as it is, b being declared too
C6_ValueNotRescanned ==
    (/\ BuiltOk
     /\ config.Args # <<>>
     /\ config.Args[1] = "{a}"
     /\ {"a", "b"} \subseteq DOMAIN Declared
     /\ Declared["a"] = "{b}")
        => BuiltArg(1) = "{b}"

\* C7: the value `$b` brought in for `{a}` stays `$b` though b is bound, and
\* the value `{b}` brought in for `$a` stays `{b}`
C7_SyntaxesIndependent ==
    BuiltOk /\ config.Args # <<>> =>
        /\ (/\ config.Args[1] = "{a}"
            /\ "a" \in DOMAIN Declared /\ Declared["a"] = "$b"
            /\ "b" \in DOMAIN DollarVars(config, overrideVars))
                => BuiltArg(1) = "$b"
        /\ (/\ config.Args[1] = "$a"
            /\ "a" \in DOMAIN DollarVars(config, overrideVars)
            /\ DollarVars(config, overrideVars)["a"] = "{b}")
                => BuiltArg(1) = "{b}"

\* C8: the record of the documentation builds `{config_path}` to the fully
\* resolved path
C8_NestedResolves ==
    (BuiltOk /\ config = NestedVariablesDoc)
        => built.cmd = <<"cat", NormalizePath("/home/user/config", goos)>>

-----------------------------------------------------------------------------
(* Claims about substitution *)

PlainScope == \A k \in DOMAIN subst.scope : Plain(subst.scope[k])

\* t holds no reference the scope resolves: no `{name}`, `$name`, `${name}`
\* of a bound name and, for a script, no `$digits` and no `$((...))`
NoReference(t) ==
    /\ \A k \in DOMAIN subst.scope : ~Contains(t, "{" \o k \o "}") /\ ~Contains(t, "$" \o k)
    /\ subst.kind = "script" =>
          (PositionalMatches(t, 0) = <<>> /\ ArithmeticMatches(t, 0) = <<>>)

\* C5 as stated: with values free of reference syntax, substituting the
\* result once more changes nothing
C5_Idempotent ==
    (subst.stage = 2 /\ PlainScope) => subst.twice = subst.once

\* C5 amended: with values free of reference syntax, substituting the result
\* once more changes nothing when the result holds no reference the scope
\* resolves
C5_IdempotentNoReference ==
    (subst.stage = 2 /\ PlainScope /\ NoReference(subst.once)) => subst.twice = subst.once

C5_Witness ==
    /\ subst.stage = 2 /\ PlainScope
    /\ subst.text = "$a{" /\ "a" \in DOMAIN subst.scope /\ subst.scope["a"] = "x"
    /\ subst.once = "x{" /\ NoReference(subst.once)
    /\ subst.twice = subst.once

-----------------------------------------------------------------------------
(* internal/executor.go: ExecuteMultipleCommands.  multi.i is the index of  *)
(* the `for i, config := range configs` loop, multi.ran the log of what the *)
(* call has done: document number, "build" or "exec", and whether it        *)
(* succeeded.                                                               *)

\* most documents handed to ExecuteMultipleCommands
MaxConfigs == 3

\* every outcome of BuildCommand(config, overrideVars)
BuildCommand(cfg, ov, os) ==
    IF Missing(cfg, ov) # {} THEN {[status |-> "err", cmd |-> <<>>]}
    ELSE {IF \E k \in DOMAIN args : args[k].hang THEN [status |-> "hang", cmd |-> <<>>]
          ELSE [status |-> "ok", cmd |-> CmdHead(cfg) \o [k \in DOMAIN args |-> args[k].s]] :
            args \in SubstituteVariablesInArgsWithSeparateMaps(
                        cfg.Args, YamlVars(cfg), DollarVars(cfg, ov), os)}

\* documents that build, one whose build fails on an undefined variable
MultiConfigs ==
    {[Command |-> "echo", Subcommand |-> "", Args |-> <<"$n">>, Variables |-> ("n" :> "A")],
     [Command |-> "ls", Subcommand |-> "", Args |-> <<"-v">>, Variables |-> <<>>],
     [Command |-> "cat", Subcommand |-> "", Args |-> <<"{m}">>, Variables |-> <<>>]}

MultiOverrides == {<<>>, "n" :> "B", "n" :> "$n"}

InitMulti ==
    /\ multi \in {[NoMulti EXCEPT !.configs = cs, !.overrideVars = ov,
                                   !.continueOnError = c, !.status = "running"] :
                     cs \in UNION {[1..n -> MultiConfigs] : n \in 0..MaxConfigs},
                     ov \in MultiOverrides, c \in BOOLEAN}
    /\ cli = NoCli /\ yaml = NoYaml
    /\ subst = NoSubst
    /\ BuildIdle
    /\ ScriptIdle

MultiAt(phase) == multi.status = "running" /\ multi.i < Len(multi.configs) /\ multi.phase = phase
MultiConfig == multi.configs[multi.i + 1]
MultiLog(op, ok) == Append(multi.ran, [k |-> multi.i + 1, op |-> op, ok |-> ok])

\* BuildCommand returns a command
MultiBuilds ==
    /\ MultiAt("build")
    /\ \E b \in BuildCommand(MultiConfig, multi.overrideVars, goos) :
          /\ b.status = "ok"
          /\ multi' = [multi EXCEPT !.ran = MultiLog("build", TRUE), !.phase = "exec",
                                    !.cmd = b.cmd]
    /\ UNCHANGED <<goos, buildVars, subst, scriptVars, cli, yaml>>

\* a loop that goes on after a failed build whatever continueOnError is
MultiBuildFailsGoingOn ==
    /\ MultiAt("build")
    /\ \E b \in BuildCommand(MultiConfig, multi.overrideVars, goos) : b.status = "err"
    /\ multi' = [multi EXCEPT !.ran = MultiLog("build", FALSE), !.i = multi.i + 1]
    /\ UNCHANGED <<goos, buildVars, subst, scriptVars, cli, yaml>>

\* BuildCommand returns an error: continue, or return the error of i+1
MultiBuildFails ==
    /\ MultiAt("build")
    /\ \E b \in BuildCommand(MultiConfig, multi.overrideVars, goos) : b.status = "err"
    /\ IF multi.continueOnError THEN
           multi' = [multi EXCEPT !.ran = MultiLog("build", FALSE), !.i = multi.i + 1]
       ELSE
           multi' = [multi EXCEPT !.ran = MultiLog("build", FALSE), !.status = "err",
                                  !.errAt = multi.i + 1]
    /\ UNCHANGED <<goos, buildVars, subst, scriptVars, cli, yaml>>

\* BuildCommand never returns
MultiBuildSpins ==
    /\ MultiAt("build")
    /\ \E b \in BuildCommand(MultiConfig, multi.overrideVars, goos) : b.status = "hang"
    /\ multi' = [multi EXCEPT !.status = "hang"]
    /\ UNCHANGED <<goos, buildVars, subst, scriptVars, cli, yaml>>

\* ExecuteCommand returns nil
MultiExecutes ==
    /\ MultiAt("exec")
    /\ multi' = [multi EXCEPT !.ran = MultiLog("exec", TRUE), !.phase = "build",
                              !.cmd = <<>>, !.i = multi.i + 1]
    /\ UNCHANGED <<goos, buildVars, subst, scriptVars, cli, yaml>>

\* ExecuteCommand returns an error: continue, or return the error of i+1
MultiExecuteFails ==
    /\ MultiAt("exec")
    /\ IF multi.continueOnError THEN
           multi' = [multi EXCEPT !.ran = MultiLog("exec", FALSE), !.phase = "build",
                                  !.cmd = <<>>, !.i = multi.i + 1]
       ELSE
           multi' = [multi EXCEPT !.ran = MultiLog("exec", FALSE), !.status = "err",
                                  !.errAt = multi.i + 1]
    /\ UNCHANGED <<goos, buildVars, subst, scriptVars, cli, yaml>>

\* the range loop is over: return nil
MultiReturns ==
    /\ multi.status = "running" /\ multi.i >= Len(multi.configs)
    /\ multi' = [multi EXCEPT !.status = "ok"]
    /\ UNCHANGED <<goos, buildVars, subst, scriptVars, cli, yaml>>

NextMulti ==
    \/ MultiBuilds \/ MultiBuildFails \/ MultiBuildSpins
    \/ MultiExecutes \/ MultiExecuteFails \/ MultiReturns

SpecMulti == InitMulti /\ [][NextMulti]_vars

-----------------------------------------------------------------------------
(* cmd/run.go: ParseArgs over the arguments of linea run *)

\* most arguments of a command line
MaxCliArgs == 3

CliTokens == {"-s", "--set", "--args", "a=1", "a=\"x\"", "b='y'", "b=", "f.yml", "-v"}
CliArgLists == UNION {[1..n -> CliTokens] : n \in 0..MaxCliArgs}

\* a test that does not know the legacy spelling
IsSetFlagNoLegacy(a) == a = "-s" \/ a = "--set"

\* args[i] == "-s" || args[i] == "--set" || args[i] == "--args"
IsSetFlag(a) == a = "-s" \/ a = "--set" \/ a = "--args"

\* the loop of ParseArgs from index i (args[i] of the code is args[i + 1])
RECURSIVE ParseArgsLoop(_, _, _, _)
ParseArgsLoop(args, i, vs, remainingArgs) ==
    IF i >= Len(args) THEN [vars |-> vs, remainingArgs |-> remainingArgs]
    ELSE IF IsSetFlag(args[i + 1]) THEN
        IF i + 1 < Len(args) THEN
            LET argPair == args[i + 2]
                eq == Index(argPair, "=")
            IN  IF eq >= 0 THEN
                    ParseArgsLoop(args, i + 2,
                                  (Slice(argPair, 0, eq) :> Trim(From(argPair, eq + 1), Quotes)) @@ vs,
                                  remainingArgs)
                ELSE ParseArgsLoop(args, i + 2, vs, remainingArgs)
        ELSE ParseArgsLoop(args, i + 1, vs, remainingArgs)
    ELSE ParseArgsLoop(args, i + 1, vs, Append(remainingArgs, args[i + 1]))

ParseArgs(args) == ParseArgsLoop(args, 0, <<>>, <<>>)

InitArgs ==
    /\ cli \in {[args |-> a, vars |-> <<>>, remainingArgs |-> <<>>, returned |-> FALSE] :
                   a \in CliArgLists}
    /\ yaml = NoYaml /\ multi = NoMulti
    /\ subst = NoSubst
    /\ BuildIdle
    /\ ScriptIdle

\* ParseArgs returns the override map and the remaining arguments
ParseArgsReturns ==
    /\ ~cli.returned /\ cli.args \in CliArgLists
    /\ cli' = [cli EXCEPT !.returned = TRUE,
                          !.vars = ParseArgs(cli.args).vars,
                          !.remainingArgs = ParseArgs(cli.args).remainingArgs]
    /\ UNCHANGED <<goos, buildVars, subst, scriptVars, yaml, multi>>

NextArgs == ParseArgsReturns

SpecArgs == InitArgs /\ [][NextArgs]_vars

-----------------------------------------------------------------------------
(* Claims about the loops *)

TraceTexts == [i \in DOMAIN trace |-> trace[i].text]
IsPrefix(p, q) == Len(p) <= Len(q) /\ p = SubSeq(q, 1, Len(p))
Returned0 == pc \in {"done", "failed"}

\* what a value word of the for scripts stands for: line 1 binds w to x
ForValue(word) == IF word = "$w" THEN "x" ELSE word

\* the command one pass over the body dispatches when v is bound to value
ForPass(body, value) ==
    IF body = <<"echo $v">> THEN "echo " \o value
    ELSE IF body = <<"deploy $v">> THEN "deploy " \o value
    ELSE "echo " \o value \o " " \o value

ForExpected(vals, body) ==
    [i \in DOMAIN vals |-> ForPass(body, ForValue(vals[i]))]
        \o <<"echo after " \o ForValue(vals[Len(vals)])>>

\* C9: a for loop over v1 ... vn runs its body n times, the i-th time with
\* the name bound to the substituted i-th value, leaves the name bound to
\* the last value and goes on after the terminator
C9_ForLoop ==
    \A vals \in ValueLists : \A body \in ForBodies : \A style \in ForStyles :
        lines = ForScript(vals, body, style) =>
            /\ IsPrefix(TraceTexts, ForExpected(vals, body))
            /\ Returned0 =>
                  /\ TraceTexts = ForExpected(vals, body)
                  /\ ctx.Variables["v"] = ForValue(vals[Len(vals)])

C9_Witness ==
    /\ pc = "done"
    /\ lines = ForScript(<<"a", "b", "c">>, <<"echo $v">>, "end")
    /\ TraceTexts = <<"echo a", "echo b", "echo c", "echo after c">>
    /\ ctx.Variables["v"] = "c"

\* how many times the counting loop runs
WhilePasses(start, op, limit) ==
    LET last == IF op = "<=" THEN limit ELSE limit - 1
    IN  IF last >= start THEN last - start + 1 ELSE 0

WhileExpected(start, op, limit) ==
    [i \in 1..WhilePasses(start, op, limit) |-> "echo " \o Itoa(start + i - 1)]
        \o <<"echo after">>

\* C10: a counting while loop runs its body once for each value of the
\* counter that satisfies the condition, in order, stops at the first value
\* that does not, and goes on after the terminator
C10_WhileLoop ==
    \A start \in WhileStarts : \A op \in WhileOps : \A limit \in 0..MaxCount :
        lines = WhileScript(start, op, limit) =>
            /\ IsPrefix(TraceTexts, WhileExpected(start, op, limit))
            /\ Returned0 =>
                  /\ TraceTexts = WhileExpected(start, op, limit)
                  /\ ctx.Variables["counter"] = Itoa(start + WhilePasses(start, op, limit))

C10_Witness ==
    /\ pc = "done"
    /\ lines = WhileScript(1, "<=", 3)
    /\ TraceTexts = <<"echo 1", "echo 2", "echo 3", "echo after">>
    /\ ctx.Variables["counter"] = "4"

\* the line of the script that opens its while loop
WhileIndex == CHOOSE i \in 0..(Len(lines) - 1) : HasPrefix(Line(lines, i), "while ")

\* in a script whose while condition always holds the run never gets past
\* the loop: it neither returns nor dispatches the command after the block
WhileNeverExits ==
    lines \in WhileForeverScripts =>
        /\ pc \in {"top", "body"}
        /\ ip <= WhileIndex
        /\ \A i \in DOMAIN trace : trace[i].at < findMatchingEnd(lines, WhileIndex)

\* a step that leaves a while loop is one at which the substituted condition
\* evaluates false
WhileExitsOnFalse ==
    (pc = "body" /\ blk.kind = "while" /\ pc' = "top") =>
        /\ ip' = blk.endIndex + 1
        /\ \E r \in SubstituteVariables(blk.condition, ctx) :
              ~r.hang /\ ~evaluateCondition(ctx, r.s)

\* C11: a while loop whose condition holds at every evaluation never exits
\* and nothing after its block is executed, and a while loop is left only at
\* an evaluation of the condition that gives false
C11_WhileNoCap == [](WhileNeverExits) /\ [][WhileExitsOnFalse]_vars

\* the loop has gone round as often as the run is followed, and is still in
\* its body
C11_Witness ==
    /\ lines = <<"while 1 == 1", "echo loop", "end", "echo after">>
    /\ pc = "body"
    /\ Len(trace) = MaxTrace
    /\ \A i \in DOMAIN trace : trace[i].text = "echo loop"

-----------------------------------------------------------------------------
(* Claims about positional parameters and arithmetic *)

\* the parameter the digits name, empty when they name none
ParamText(digits, args) ==
    IF \E k \in DOMAIN args : StripZeros(digits) = Itoa(k)
    THEN args[CHOOSE k \in DOMAIN args : StripZeros(digits) = Itoa(k)]
    ELSE ""

\* the line with each `$digits` replaced where it stands
RECURSIVE PositionalExpected(_, _, _)
PositionalExpected(s, i, args) ==
    IF i >= Len(s) THEN ""
    ELSE IF At(s, i) = "$" /\ DigitsEnd(s, i + 1) > i + 1 THEN
        ParamText(Slice(s, i + 1, DigitsEnd(s, i + 1)), args)
            \o PositionalExpected(s, DigitsEnd(s, i + 1), args)
    ELSE At(s, i) \o PositionalExpected(s, i + 1, args)

\* C12: the command dispatched for a line is the line with every `$k`
\* replaced by the k-th parameter of the context, or by nothing when there is
\* no k-th parameter
C12_PositionalParams ==
    \A l \in PositionalLines :
        (lines = <<l>> /\ trace # <<>>) =>
            trace[1].text = Dispatched(PositionalExpected(l, 0, ctx.Args), 0, FALSE).text

\* C13: a script run from the command line with extra arguments has them as
\* its positional parameters, so `echo "Deploying $1 to $2"` run with my-app
\* and production dispatches `echo Deploying my-app to production`
C13_CommandLineParams ==
    \A l \in PositionalLines :
        (lines = <<l>> /\ argv # <<>> /\ trace # <<>>) =>
            trace[1].text = Dispatched(PositionalExpected(l, 0, argv), 0, FALSE).text

\* one operator applied to the running result: a zero divisor changes
\* nothing, a quotient is cut toward zero
Applied(acc, op, n) ==
    CASE op = "+" -> acc + n
      [] op = "-" -> acc - n
      [] op = "*" -> acc * n
      [] op = "/" -> IF n = 0 THEN acc
                     ELSE IF acc < 0 THEN 0 - ((0 - acc) \div n) ELSE acc \div n
      [] op = "%" -> IF n = 0 THEN acc
                     ELSE IF acc < 0 THEN 0 - ((0 - acc) % n) ELSE acc % n

\* the operators of e applied one after the other from the left
RECURSIVE LeftFold(_, _, _)
LeftFold(e, i, acc) ==
    IF i > Len(e.rest) THEN acc
    ELSE LeftFold(e, i + 1, Applied(acc, e.rest[i][1], Atoi(e.rest[i][2])))

Operands(e) == {e.first} \cup {e.rest[i][2] : i \in DOMAIN e.rest}

\* the value of the expressions with the operand of twenty digits
BigValue(e) ==
    IF e.first = "0" THEN BigOperand
    ELSE IF e.first = "2" THEN "200000000000000000001"
    ELSE "1"

ArithValue(e) ==
    IF BigOperand \in Operands(e) THEN BigValue(e) ELSE Itoa(LeftFold(e, 1, Atoi(e.first)))

-----------------------------------------------------------------------------
(* Claims about the if block and about failing commands *)

\* the commands of the branch of an if script that the value of x selects,
\* and the command after the block; y is bound in the true branch only
IfBranch(x, hasElse) ==
    IF x = "1" THEN <<"echo yes">>
    ELSE IF hasElse THEN <<"echo no", "deploy no $y">>
    ELSE <<>>

IfAfter(x) == IF x = "1" THEN <<"echo after 1">> ELSE <<"echo after $y">>

\* C16 as stated: the commands of exactly one branch are dispatched, then
\* the command after the terminator, and a `then` line never is
C16_OneBranch ==
    \A x \in {"1", "2"} : \A hasThen, hasElse, elseThen \in BOOLEAN : \A term \in {"end", "fi"} :
        lines = IfScript(x, hasThen, hasElse, elseThen, term) =>
            LET expected == IfBranch(x, hasElse) \o IfAfter(x)
            IN  /\ IsPrefix(TraceTexts, expected)
                /\ Returned0 => TraceTexts = expected

\* C16 amended: the same, but a `then` line of the else branch is dispatched
\* like any command when the condition is false, and the true branch ends at
\* a bare `elif` line as it does at `else`
C16_OneBranchThenInElse ==
    /\ lines = ElifScript =>
          /\ IsPrefix(TraceTexts, <<"echo yes", "echo after">>)
          /\ Returned0 => TraceTexts = <<"echo yes", "echo after">>
    /\ \A x \in {"1", "2"} : \A hasThen, hasElse, elseThen \in BOOLEAN : \A term \in {"end", "fi"} :
          lines = IfScript(x, hasThen, hasElse, elseThen, term) =>
              LET elseLine == IF x = "2" /\ hasElse /\ elseThen THEN <<"then">> ELSE <<>>
                  expected == elseLine \o IfBranch(x, hasElse) \o IfAfter(x)
              IN  /\ IsPrefix(TraceTexts, expected)
                  /\ Returned0 => TraceTexts = expected
                  /\ \A i \in DOMAIN trace :
                        HasPrefix(trace[i].text, "echo after") => trace[i].at = Len(lines) - 1

C16_Witness ==
    /\ lines = IfScript("2", TRUE, TRUE, FALSE, "fi")
    /\ pc = "done"
    /\ TraceTexts = <<"echo no", "deploy no $y", "echo after $y">>

\* the scripts made of one block followed by one command: the command on the
\* last line is the only one at the top level
BlockScripts == ForScripts \cup WhileScripts \cup IfScripts

FailedInBody(i) == trace[i].failed /\ trace[i].at < Len(lines) - 1
FailedAtTop(i) == trace[i].failed /\ trace[i].at = Len(lines) - 1

\* every command of the block script has been dispatched: the passes of the
\* loop or the selected branch, then the command after the block
CompleteRun ==
    /\ \A vals \in ValueLists : \A body \in ForBodies : \A style \in ForStyles :
          lines = ForScript(vals, body, style) => TraceTexts = ForExpected(vals, body)
    /\ \A start \in WhileStarts : \A op \in WhileOps : \A limit \in 0..MaxCount :
          lines = WhileScript(start, op, limit) => TraceTexts = WhileExpected(start, op, limit)
    /\ \A x \in {"1", "2"} : \A hasThen, hasElse, elseThen \in BOOLEAN : \A term \in {"end", "fi"} :
          lines = IfScript(x, hasThen, hasElse, elseThen, term) =>
              TraceTexts = (IF x = "2" /\ hasElse /\ elseThen THEN <<"then">> ELSE <<>>)
                              \o IfBranch(x, hasElse) \o IfAfter(x)

\* C17: a command that fails in the body of an if, for or while block does
\* not end the run: ExecuteLines returns an error only for a later command
\* that fails at the top level, and a run that returns without error has
\* dispatched the rest of the body, the remaining passes and the command
\* after the block
C17_BodyFailureSwallowed ==
    lines \in BlockScripts =>
        \A i \in DOMAIN trace :
            FailedInBody(i) =>
                /\ pc = "failed" => i < Len(trace) /\ FailedAtTop(Len(trace))
                /\ pc = "done" => CompleteRun

C17_Witness ==
    /\ pc = "done"
    /\ lines = ForScript(<<"a", "b", "c">>, <<"deploy $v">>, "done")
    /\ FailedInBody(1)
    /\ TraceTexts = <<"deploy a", "deploy b", "deploy c", "echo after c">>

LastRan == trace[Len(trace)]

\* ExecuteLines has returned an error: the command that failed is the last
\* one dispatched, and it is the command of the line the error names
FailedAtErrorLine ==
    pc = "failed" =>
        /\ Len(trace) > 0 /\ LastRan.failed
        /\ LastRan.at = ErrorLine - 1
        /\ ErrorLine \in 1..Len(lines)
        /\ \E r \in SubstituteVariables(Line(lines, ErrorLine - 1), ctx) :
              ~r.hang /\ LastRan.text = Dispatched(r.s, 0, TRUE).text

\* a step of the top level whose command fails
TopFails == pc = "top" /\ Len(trace') = Len(trace) + 1 /\ trace'[Len(trace')].failed

\* C18: a command that fails at the top level ends the run: ExecuteLines
\* returns an error that carries the 1-based number of the line of that
\* command, nothing is executed after it, and the scope is what it was when
\* the command was dispatched
C18_TopFailureAborts ==
    /\ [](FailedAtErrorLine)
    /\ [][TopFails => pc' = "failed" /\ ctx' = ctx /\ ErrorLine' = trace'[Len(trace')].at + 1]_vars
    /\ [][pc # "failed"]_vars

C18_Witness ==
    /\ pc = "failed"
    /\ lines = WhileScript(1, "<=", 3)
    /\ TraceTexts = <<"echo 1", "echo 2", "echo 3", "echo after">>
    /\ LastRan.failed
    /\ ErrorLine = 6
    /\ ctx.Variables["counter"] = "4"

-----------------------------------------------------------------------------
(* Claims about the built command *)

HostSeparator == IF goos = "windows" THEN "\\" ELSE "/"
OtherSeparator == IF goos = "windows" THEN "/" ELSE "\\"

ShortSlashFlag(t) == Len(t) <= 3 /\ (HasPrefix(t, "/") \/ HasPrefix(t, "\\"))
NoSeparator(t) == ~Contains(t, "/") /\ ~Contains(t, "\\")
DrivePrefix(t) == Len(t) >= 2 /\ IsLetter(At(t, 0)) /\ At(t, 1) = ":"
DotPrefix(t) == HasPrefix(t, "./") \/ HasPrefix(t, "../")

\* C19 as stated: of the arguments without references, a short one that
\* starts with a separator and one without any separator are not path-like
\* and are returned as they are; one with a drive-letter prefix or starting
\* with ./ or ../ is path-like and is returned with host separators only
C19_PathClassification ==
    BuiltOk =>
        \A i \in DOMAIN config.Args :
            LET t == config.Args[i]
            IN  Plain(t) =>
                    /\ ShortSlashFlag(t) \/ NoSeparator(t) =>
                          ~IsPathLike(t) /\ BuiltArg(i) = t
                    /\ DrivePrefix(t) \/ DotPrefix(t) =>
                          IsPathLike(t) /\ ~Contains(BuiltArg(i), OtherSeparator)

\* C19 amended: the same, an argument without separator being one that has
\* no drive-letter prefix either
C19_PathClassificationNoDrive ==
    BuiltOk =>
        \A i \in DOMAIN config.Args :
            LET t == config.Args[i]
            IN  Plain(t) =>
                    /\ ShortSlashFlag(t) \/ (NoSeparator(t) /\ ~DrivePrefix(t)) =>
                          ~IsPathLike(t) /\ BuiltArg(i) = t
                    /\ DrivePrefix(t) \/ DotPrefix(t) =>
                          IsPathLike(t) /\ ~Contains(BuiltArg(i), OtherSeparator)

C19_Witness ==
    /\ BuiltOk
    /\ goos = "windows"
    /\ config.Args = <<"-v", "C:/Users/x">>
    /\ built.cmd = <<"tool", "run", "-v", "C:\\Users\\x">>

\* the element of the built command that stands for the i-th argument,
\* counted from the end
ArgElement(i) == built.cmd[Len(built.cmd) - Len(config.Args) + i]

BuiltShape ==
    BuiltOk =>
        /\ Len(built.cmd) = 1 + (IF config.Subcommand # "" THEN 1 ELSE 0) + Len(config.Args)
        /\ built.cmd[1] = config.Command
        /\ config.Subcommand # "" => built.cmd[2] = config.Subcommand
        /\ \A i \in DOMAIN config.Args :
              /\ \E r \in SubstituteVariablesWithSeparateMaps(
                            config.Args[i], YamlVars(config), DollarVars(config, overrideVars)) :
                    ~r.hang /\ ArgElement(i) = Normalized(r.s)
              /\ Plain(config.Args[i]) => ArgElement(i) = Normalized(config.Args[i])

\* C20: a successful BuildCommand returns the command name, the subcommand
\* if and only if it is not empty, then for each declared argument, in the
\* declared order, its substituted and normalized form, so 1 + (1 if there
\* is a subcommand) + number of arguments elements; the record and the
\* override map are what they were
C20_BuiltCommandShape ==
    /\ [](BuiltShape)
    /\ [][config' = config /\ overrideVars' = overrideVars]_vars

C20_Witness ==
    /\ BuiltOk
    /\ goos = "linux"
    /\ config.Subcommand = ""
    /\ config.Args = <<"-v", "./a/b">>
    /\ built.cmd = <<"tool", "-v", "a/b">>

-----------------------------------------------------------------------------
(* Claims about linea run: documents, overrides, several commands *)

WellFormed(docs) == \A k \in DOMAIN docs : docs[k].decodes
HasCommand(doc) == doc.config.Command # ""
ValidDocuments(docs) == SelectSeq(docs, HasCommand)

\* C21: for a stream of documents that all decode, ParseMultiYAML returns
\* the records of the documents with a non-empty command, in the order of
\* the stream, and returns an error exactly when there is no such document
C21_MultiDocument ==
    (yaml.status # "none" /\ WellFormed(yaml.docs)) =>
        LET valid == ValidDocuments(yaml.docs)
        IN  IF valid = <<>> THEN yaml.status = "err"
            ELSE /\ yaml.status = "ok"
                 /\ yaml.configs = [k \in DOMAIN valid |-> valid[k].config]

C21_Witness ==
    /\ yaml.status = "ok"
    /\ yaml.docs = <<Document("echo"), Document(""), Document("ls")>>
    /\ yaml.configs = <<Document("echo").config, Document("ls").config>>

OverrideFlags == {"-s", "--set", "--args"}
IsPair(a) == Contains(a, "=")
PairKey(a) == Slice(a, 0, Index(a, "="))
PairValue(a) == Trim(From(a, Index(a, "=") + 1), Quotes)

\* the arguments that are not a flag
RECURSIVE Others(_)
Others(args) ==
    IF args = <<>> THEN <<>>
    ELSE IF Head(args) \in OverrideFlags THEN
        IF Len(args) >= 2 /\ IsPair(args[2]) THEN Others(Tail(Tail(args)))
        ELSE Others(Tail(args))
    ELSE <<Head(args)>> \o Others(Tail(args))

Interchangeable ==
    \A i \in DOMAIN cli.args : \A f \in OverrideFlags :
        cli.args[i] \in OverrideFlags =>
            /\ ParseArgs([cli.args EXCEPT ![i] = f]).vars = cli.vars
            /\ ParseArgs([cli.args EXCEPT ![i] = f]).remainingArgs = cli.remainingArgs

RECURSIVE Free(_, _)
Free(args, i) ==
    \/ i = 1
    \/ i > 1 /\ Free(args, i - 1) /\ args[i - 1] \notin OverrideFlags
    \/ i > 2 /\ ~Free(args, i - 1)

Follows(args, i) == i > 1 /\ ~Free(args, i)

\* the positions whose argument is bound: it follows a flag and has a `=`
Bound(args) == {i \in DOMAIN args : Follows(args, i) /\ IsPair(args[i])}

-----------------------------------------------------------------------------
(* Claims about nested blocks and the legacy while loop *)

Terminators == {"end", "fi", "done"}

\* the terminator of the block opened before line i, every opener raising
\* the depth and every terminator lowering it
RECURSIVE Closing(_, _, _)
Closing(ls, i, depth) ==
    IF i >= Len(ls) THEN Len(ls)
    ELSE IF IsOpener(Line(ls, i)) THEN Closing(ls, i + 1, depth + 1)
    ELSE IF Line(ls, i) \in Terminators THEN
        (IF depth = 1 THEN i ELSE Closing(ls, i + 1, depth - 1))
    ELSE Closing(ls, i + 1, depth)

\* C23: while a handler runs the block opened on line ip, the terminator it
\* has found is the one that closes that block, nested blocks of any kind
\* counted
C23_TerminatorOfOuterBlock ==
    pc = "body" => blk.endIndex = Closing(lines, ip + 1, 1)

BlockWords == {"else", "end", "fi", "do", "done"}

\* C24: in a script with a block inside a block, no opener and no else,
\* end, fi, do or done line is ever dispatched as a command
C24_NestedNotDispatched ==
    lines \in NestedScripts =>
        \A i \in DOMAIN trace :
            ~IsOpener(trace[i].text) /\ trace[i].text \notin BlockWords

\* C25: the legacy while loop runs its body, the lines between `do` and
\* `done`, once for each value of the counter that satisfies the condition
\* and then goes on with the line after `done`
C25_LegacyWhile ==
    \A start \in WhileStarts : \A limit \in 0..2 :
        lines = LegacyWhileScript(start, limit) =>
            /\ IsPrefix(TraceTexts, WhileExpected(start, "<=", limit))
            /\ Returned0 => TraceTexts = WhileExpected(start, "<=", limit)

-----------------------------------------------------------------------------
(* Claims about conditions and assignments *)

\* the comparison of two integers and of two strings under an operator
IntCompare(op, a, b) ==
    CASE op = "<=" -> a <= b
      [] op = ">=" -> a >= b
      [] op \in {"==", "="} -> a = b
      [] op = "!=" -> a # b
      [] op = "<" -> a < b
      [] op = ">" -> a > b

LexCompare(op, a, b) ==
    CASE op = "<=" -> a = b \/ StringLess(a, b)
      [] op = ">=" -> ~StringLess(a, b)
      [] op \in {"==", "="} -> a = b
      [] op = "!=" -> a # b
      [] op = "<" -> StringLess(a, b)
      [] op = ">" -> a # b /\ ~StringLess(a, b)

NumericFirst(l, op, r) ==
    IF IsInt(l) /\ IsInt(r) THEN IntCompare(op, Atoi(l), Atoi(r)) ELSE LexCompare(op, l, r)

\* C26: an if block on `l op r` takes the branch of the integer comparison
\* when both operands are integers, for each of the seven operators, and
\* of the lexical comparison otherwise
C26_NumericFirst ==
    \A l, r \in CompareOperands : \A op \in CompareOperators :
        (lines = CompareScript(l, op, r) /\ pc = "done") =>
            TraceTexts = <<IF NumericFirst(l, op, r) THEN "echo yes" ELSE "echo no">>

\* C27: `if $x`, `while $x`, `if -n $x` and `if [ -n "$x" ]` take the true
\* branch exactly when x is bound to a non-empty string, and any other
\* condition without operator is false
C27_OperatorLess ==
    \A bind \in TruthBindings :
        /\ \A cond \in TruthConditions :
              (lines = TruthScript(bind, cond) /\ pc = "done") =>
                  TraceTexts = <<IF bind = <<"x=yes">> /\ cond \notin {"yes", "x"}
                                 THEN "echo yes" ELSE "echo no">>
        /\ (lines = TruthWhileScript(bind) /\ pc = "done") =>
              TraceTexts = (IF bind = <<"x=yes">> THEN <<"echo loop">> ELSE <<>>)
                              \o <<"echo after">>

\* the value an assignment line of the scripts gives its name, size being 2
AssignValue(a) ==
    CASE a = "host=server" -> "server"
      [] a = "host=my-server" -> "my-server"
      [] a = "n=$((9-size))" -> "7"
      [] a = "host=\"a b\"" -> "a b"

\* C28: an assignment line binds its name to the substituted value and is
\* not dispatched, at the top level and in a block body, also when the value
\* contains the characters -s
C28_Assignment ==
    \A a \in AssignLines : \A inBody \in BOOLEAN :
        (lines = AssignScript(a, inBody) /\ pc = "done") =>
            /\ TraceTexts = <<"echo " \o AssignValue(a)>>
            /\ ctx.Variables[Slice(a, 0, Index(a, "="))] = AssignValue(a)

-----------------------------------------------------------------------------
(* Claims about several commands *)

MultiReturned == multi.status \in {"ok", "err"}

\* the log is in document order: each document is built at most once, and
\* executed at most once, right after its build succeeded
InOrder ==
    \A p \in DOMAIN multi.ran :
        LET e == multi.ran[p]
        IN  /\ e.k \in DOMAIN multi.configs
            /\ p > 1 => multi.ran[p - 1].k <= e.k
            /\ e.op = "exec" <=>
                  (p > 1 /\ multi.ran[p - 1] = [k |-> e.k, op |-> "build", ok |-> TRUE])
            /\ (e.op = "build" /\ p > 1) => multi.ran[p - 1].k < e.k
            /\ (e.op = "build" /\ e.ok /\ MultiReturned) => p < Len(multi.ran)

Failed(p) == ~multi.ran[p].ok

\* continueOnError false: an error is returned exactly when something
\* failed, it names the document of the first failure, which is the last
\* thing done; without failure every document was built and executed
StopsAtFirstFailure ==
    (MultiReturned /\ ~multi.continueOnError) =>
        /\ multi.status = "err" <=> \E p \in DOMAIN multi.ran : Failed(p)
        /\ \A p \in DOMAIN multi.ran :
              Failed(p) => p = Len(multi.ran) /\ multi.errAt = multi.ran[p].k
        /\ multi.status = "ok" =>
              \A k \in DOMAIN multi.configs :
                  \E p \in DOMAIN multi.ran : multi.ran[p] = [k |-> k, op |-> "exec", ok |-> TRUE]

\* continueOnError true: no error is returned and every document has been
\* built, those that built having been executed
GoesOnAfterFailure ==
    (MultiReturned /\ multi.continueOnError) =>
        /\ multi.status = "ok"
        /\ \A k \in DOMAIN multi.configs :
              \E p \in DOMAIN multi.ran : multi.ran[p].k = k /\ multi.ran[p].op = "build"

\* C29: ExecuteMultipleCommands builds and then executes the documents one
\* after the other in their order; with continueOnError false it returns at
\* the first failure an error that names its document and touches no later
\* document; with continueOnError true it executes once, in order, every
\* document that builds, and returns no error
C29_MultipleCommands == InOrder /\ StopsAtFirstFailure /\ GoesOnAfterFailure

C29_Witness ==
    /\ multi.status = "err" /\ ~multi.continueOnError
    /\ Len(multi.configs) = 3
    /\ multi.errAt = 2
    /\ multi.ran = <<[k |-> 1, op |-> "build", ok |-> TRUE], [k |-> 1, op |-> "exec", ok |-> TRUE],
                     [k |-> 2, op |-> "build", ok |-> FALSE]>>

RetroExpected(old, new) ==
    <<"echo " \o old \o " " \o new, "echo b " \o new, "echo " \o old \o " " \o new,
      "echo after " \o old \o " " \o new>>

RebindExpected(new) ==
    <<"echo a", "echo " \o new, "echo b", "echo " \o new, "echo after " \o new>>

\* C30: the value list of a for loop is what its words stood for when the
\* loop was entered: an assignment in the body to a variable of the list, or
\* to the loop variable, changes neither the number of passes nor the value
\* bound in a later pass, and every line after the assignment sees it
C30_NotRetroactive ==
    /\ \A old \in RetroWords : \A new \in {"z", "b"} :
          lines = RetroScript(old, new) =>
              /\ pc = "body" => blk.values = <<old, "b", old>>
              /\ IsPrefix(TraceTexts, RetroExpected(old, new))
              /\ Returned0 =>
                    /\ TraceTexts = RetroExpected(old, new)
                    /\ ctx.Variables = ("w" :> new) @@ ("v" :> old)
    /\ \A new \in {"z", "b"} :
          lines = RebindScript(new) =>
              /\ pc = "body" => blk.values = <<"a", "b">>
              /\ IsPrefix(TraceTexts, RebindExpected(new))
              /\ Returned0 => TraceTexts = RebindExpected(new)

C30_Witness ==
    /\ pc = "done"
    /\ lines = RetroScript("a", "z")
    /\ TraceTexts = <<"echo a z", "echo b z", "echo a z", "echo after a z">>
    /\ ctx.Variables["w"] = "z"

\* the line that the step at hand visits, and its index
VisitedLine == IF pc = "top" THEN TopLine ELSE BodyLine
VisitedAt == IF pc = "top" THEN ip ELSE blk.j
Visiting == AtTop \/ (InBody /\ BodyRuns)

KeywordLine(line) ==
    \/ IsOpener(line) \/ HasPrefix(line, "elif ")
    \/ line \in {"then", "else", "end", "fi", "do", "done"}

CommandLine(line) ==
    /\ line # "" /\ ~HasPrefix(line, "#")
    /\ ~parseVariableAssignment(line).ok
    /\ ~KeywordLine(line)

\* the step sends exactly one command, that of the substituted line s, to
\* one boundary; verbatim tells whether the shell gets s itself
SendsOne(s, verbatim) ==
    LET parts == parseCommand(s)
        sent == trace'[Len(trace')]
    IN  /\ Len(parts) > 0
        /\ Len(trace') = Len(trace) + 1
        /\ SubSeq(trace', 1, Len(trace)) = trace
        /\ sent.at = VisitedAt
        /\ IF parts[1] \in workflows THEN
               /\ sent.via = "workflow"
               /\ sent.name = parts[1]
               /\ sent.args = Tail(parts)
           ELSE
               /\ sent.via = "shell"
               /\ sent.text = IF ~verbatim /\ HasPrefix(TrimSpace(s), "echo ")
                              THEN JoinWords(parts) ELSE s

DispatchStep(verbatim) ==
    /\ trace' # trace =>
          /\ Visiting
          /\ \E r \in SubstituteVariables(VisitedLine, ctx) : ~r.hang /\ SendsOne(r.s, verbatim)
    /\ (Visiting /\ CommandLine(VisitedLine) /\ pc' # "hang") =>
          \/ trace' # trace
          \/ \E r \in SubstituteVariables(VisitedLine, ctx) :
                ~r.hang /\ Len(parseCommand(r.s)) = 0
    /\ (Visiting /\ (VisitedLine = "" \/ HasPrefix(VisitedLine, "#")) /\ pc' # "hang") =>
          /\ trace' = trace
          /\ ctx' = ctx

\* C31 as stated: every visit of a command line that returns sends one
\* command to one boundary, the workflow runner getting the words after the
\* first and the host shell getting the substituted line itself; a blank or
\* comment line sends nothing and leaves the variables alone
C31_DispatchVerbatim == [][DispatchStep(TRUE)]_vars

\* C31: every visit of a command line that returns sends one command to one
\* boundary unless the substituted line has no word: the workflow runner
\* gets the first word as the name and the quote-stripped words after it as
\* arguments, the host shell gets the substituted line, an echo line with
\* its words stripped of quotes and joined by single spaces; a blank or
\* comment line sends nothing and leaves the variables alone
C31_Dispatch == [][DispatchStep(FALSE)]_vars

C31_Witness ==
    /\ pc = "done"
    /\ workflows = {"deploy"}
    /\ lines = <<"x=", "$x", "deploy \"a b\" 'c'  d", "echo \"hi  there\" $x.">>
    /\ Len(trace) = 2
    /\ trace[1].via = "workflow" /\ trace[1].name = "deploy"
    /\ trace[1].args = <<"a b", "c", "d">>
    /\ trace[2].via = "shell" /\ trace[2].text = "echo hi  there ."

\* C32: substitution returns for every text and every scope: no `$name`
\* loop of SubstituteVariables or SubstituteVariablesWithSeparateMaps goes
\* round for ever, neither at a reference to a longer name of which a bound
\* name is a prefix nor at a bound value that holds its own reference
C32_SubstitutionReturns == subst.stage # -1

NoWhile == \A i \in DOMAIN lines : ~HasPrefix(TrimSpace(lines[i]), "while ")

SetMax(S) == CHOOSE m \in S : \A n \in S : n <= m

\* more than the passes of any for loop of the script
Width == 1 + SetMax({Len(lines[i]) : i \in DOMAIN lines} \cup {0})

\* more than the steps one handler takes from its opener to its return
HandlerSteps == Width * (Len(lines) + 1) + 1

\* the steps that are left at most, in a script without a while loop
Rank ==
    CASE pc = "cli" -> (Len(lines) + 2) * HandlerSteps + 1
      [] pc = "top" -> (Len(lines) + 2 - ip) * HandlerSteps
      [] pc = "body" -> (Len(lines) + 1 - ip) * HandlerSteps + 1
                        + (Len(blk.values) - blk.vi) * (Len(lines) + 1)
                        + (blk.endIndex - blk.j)
      [] OTHER -> 0

TopLevelStep ==
    /\ ip' >= ip
    /\ (pc \in {"top", "body"} /\ pc' = "top") => ip' > ip
    /\ (pc = "top" /\ pc' = "body") => ip' = ip /\ blk'.j > ip /\ blk'.endIndex > ip
    /\ NoWhile => Rank' < Rank

\* C33: the index of ExecuteLines never goes back and is at most
\* len(lines)+1; every top-level step that goes on to a next line, a block
\* handler's return included, goes on to a greater index, and the body of a
\* block lies after its opener; in a script without a while loop every step
\* lowers a rank that is never negative, so the run takes a bounded number
\* of steps
C33_IndexIncreases ==
    /\ [](ip >= 0 /\ ip <= Len(lines) + 1 /\ Rank >= 0)
    /\ [][TopLevelStep]_vars

C33_Witness ==
    /\ pc = "top"
    /\ lines = <<"echo a", "for v in a b", "echo $v", "echo c">>
    /\ ip = Len(lines) + 1
    /\ TraceTexts = <<"echo a", "echo a", "echo c", "echo b", "echo c">>

\* C34: a variable bound to the empty string and an unbound variable behave
\* the same in a comparison: whether x is unbound or bound to the empty
\* string, `if $x == ""` takes the then branch and `if $x != ""` the else
\* branch
C34_EmptyLikeUnbound ==
    \A bind \in {<<>>, <<"x=">>} :
       /\ (lines = TruthScript(bind, "$x == \"\"") /\ Returned0) => TraceTexts = <<"echo yes">>
       /\ (lines = TruthScript(bind, "$x != \"\"") /\ Returned0) => TraceTexts = <<"echo no">>

\* the decimal text of a small natural number
Decimal(n) ==
    LET digit(d) == SubSeq("0123456789", d + 1, d + 1)
    IN  IF n < 10 THEN digit(n) ELSE digit(n \div 10) \o digit(n % 10)

BareValue(value) == CHOOSE n \in 0..99 : Decimal(n) = value

\* C35: inside $((...)) a variable bound to a non-negative integer may be
\* written bare, as $name or as ${name}: with n bound to v, $((n + 1)),
\* $(($n + 1)) and $((${n} + 1)) all evaluate to v + 1
C35_ThreeSpellings ==
    \A value \in {"0", "5", "41"} : \A sep \in {"", " "} :
       (lines = BareScript(value, sep) /\ pc = "done") =>
           LET sum == "echo " \o Decimal(BareValue(value) + 1)
           IN  TraceTexts = <<sum, sum, sum>>

\* C36: arithmetic on a negative value follows the left-to-right law: with
\* x = -1 produced by $((0 - 1)), $((x - 1)) evaluates to -2 and $((x + 2))
\* to 1
C36_NegativeOperand ==
    \A sep \in {"", " "} :
       (lines = NegativeScript(sep) /\ pc = "done") =>
           TraceTexts = <<"echo -1", "echo -2", "echo 1">>

\* the index the handler of the opener at line i finds for the end of its block
MatchOf(i) ==
    IF HasPrefix(Line(lines, i), "if ") THEN findMatchingEndOrFi(lines, i)
    ELSE IF HasPrefix(Line(lines, i), "for ") THEN findMatchingEndOrDone(lines, i)
    ELSE findMatchingEnd(lines, i)

\* ExecuteLines is at an opener that no terminator matches
AtUnterminated ==
    /\ AtTop
    /\ ~parseVariableAssignment(TopLine).ok
    /\ IsOpener(TopLine)
    /\ MatchOf(ip) = Len(lines)

OpenBlock == pc = "body" /\ blk.endIndex = Len(lines)

\* the handler of an unterminated opener, wellFormed telling which openers
\* are meant: the block reaches to the end of the script, the handler
\* returns len(lines)+1 and no failure in the block ends the run; past the
\* end nothing is run and nil is returned
UnterminatedStep(wellFormed) ==
    /\ (AtUnterminated /\ wellFormed) =>
          \/ pc' = "hang"
          \/ pc' = "body" /\ blk'.endIndex = Len(lines) /\ blk'.j > ip
          \/ pc' = "top" /\ ip' = Len(lines) + 1 /\ trace' = trace
    /\ OpenBlock =>
          \/ pc' = "hang"
          \/ pc' = "body" /\ blk'.endIndex = Len(lines)
          \/ pc' = "top" /\ ip' = Len(lines) + 1
    /\ (pc = "top" /\ ip >= Len(lines)) =>
          pc' = "done" /\ trace' = trace /\ ctx' = ctx

\* C37 as stated: the handler of every opener without a matching terminator
\* takes the rest of the script as its block and returns an index past the
\* end, after which nothing runs and ExecuteLines returns nil
C37_UnterminatedAnyOpener == [][UnterminatedStep(TRUE)]_vars

\* C37: the handler of an opener without a matching terminator, a for line
\* being one only when it has a variable, `in` and a value, takes the rest
\* of the script as its block and returns an index past the end, after
\* which nothing runs and ExecuteLines returns nil
C37_Unterminated ==
    [][UnterminatedStep(HasPrefix(TopLine, "for ") => ForWellFormed(TopLine))]_vars

C37_Witness ==
    /\ pc = "done"
    /\ lines = <<"x=1", "if $x == 2", "echo b", "else", "echo c", "echo d">>
    /\ ip = Len(lines) + 1
    /\ TraceTexts = <<"echo c", "echo d">>

====
